---- MODULE Spec2Model ----
(***************************************************************************)
(* Draft / confirmation protocol of the Poke clone:                        *)
(*   MemoryManager.pending_confirmations  (memory_manager.py)              *)
(*   MainPokeAgent.handle_emoji_reaction   (main_poke_agent.py)            *)
(*   ExecutionAgent.execute_confirmed_action (execution_agent.py)          *)
(*   EmailService.send_email, CalendarService.create_event                 *)
(*                                                                         *)
(* Python values are modelled as follows: a dict is a record, Optional[X]  *)
(* is a sequence of length 0 (None) or 1, a str built by an f-string is    *)
(* the tuple of its parts (the empty str is the empty tuple), a date or    *)
(* time text is the tuple of its characters, datetime.now() is the integer *)
(* clock `now`.                                                            *)
(***************************************************************************)
EXTENDS Integers, Sequences, FiniteSets, TLC

VARIABLES
    pending_confirmations, \* rows of the sqlite table pending_confirmations
    outbox,                \* emails handed to the mail backend by send_email
    events_cache,          \* CalendarService.events_cache: user_id -> list of events
    now,                   \* the clock: the last value datetime.now() returned
    response,              \* the value returned by the last call
    staged,                \* history: per user, the last draft successfully set
    nstaged,               \* history: the number of successful set calls
    dead,                  \* history: the stagings that were rejected or replaced
    approved,              \* history: the stagings an approve reaction has executed
    log,                   \* history: the backend create calls that were issued
    last,                  \* history: the last call, its arguments and locals
    faulty,                \* whether the sqlite store may raise in this run
    conversation_history,  \* MainPokeAgent.conversation_history
    user_memory,           \* rows of the sqlite table user_memory
    conversations,         \* rows of the sqlite table conversations
    triggers,              \* TriggerManager.triggers: the stored triggers
    calls,                 \* history: the backend calls of the last turn
    auth_tokens,           \* web_app.auth_tokens: token -> registration
    accepts,               \* history: the callbacks that accepted a token
    requests,              \* history: the number of requests the endpoints served
    inflight               \* the handle_emoji_reaction calls in progress, per thread

\* the state of the confirmation protocol and of the backends
corevars == <<pending_confirmations, outbox, events_cache, staged, nstaged,
              dead, approved, log, faulty>>

\* the state a process_user_message turn works on
turnvars == <<conversation_history, user_memory, conversations, triggers,
              calls>>

\* the state of the OAuth endpoints of web_app.py
webvars == <<auth_tokens, accepts, requests, inflight>>

vars == <<last, pending_confirmations, outbox, events_cache, now, response,
          staged, nstaged, dead, approved, log, faulty,
          conversation_history, user_memory, conversations, triggers, calls,
          auth_tokens, accepts, requests, inflight>>

----------------------------------------------------------------------------
(* Bounds of the model *)

\* set_pending_confirmation calls that succeed in one run
MaxStagings == 2

\* backend create calls in one run
MaxCalls == MaxStagings

\* process_user_message calls in one run
MaxTurns == 2

\* the events the calendar backend is asked to create in a search run
MaxEvents == 2

\* the requests the OAuth endpoints serve in a run
MaxRequests == 4

\* the triggers created in a run of the trigger manager
MaxTriggers == 2

\* the create_recurring_event calls of a run
MaxSeries == 1

\* the store_conversation calls of a run
MaxConversations == 1

\* the update_user_memory calls of a run
MaxUpdates == 6

Users == {"u1", "u2"}

\* the threads that serve requests at the same time (web_app.py 88-104: a
\* request runs its coroutine on an event loop of its own)
Threads == {1, 2}

\* a thread that is in no call
Idle == [pc |-> "idle"]

----------------------------------------------------------------------------
(* Python helpers *)

None == <<>>
Some(v) == <<v>>

\* dict.get(key, default)
Get(d, k, default) == IF k \in DOMAIN d THEN d[k] ELSE default

\* truthiness of an Optional[Dict]: None and the empty dict are falsy
Truthy(opt) == opt # None /\ DOMAIN opt[1] # {}

\* the key order json.dumps writes the draft dicts in (their insertion order)
KeyOrder == <<"type", "to", "subject", "body", "title", "date", "time",
              "description", "user_id">>

InDomain(d, k) == k \in DOMAIN d

\* json.dumps(dict): the text is the list of the key/value pairs
json_dumps(d) ==
    LET ks == SelectSeq(KeyOrder, LAMBDA k : InDomain(d, k))
    IN  [i \in 1..Len(ks) |-> <<ks[i], d[ks[i]]>>]

\* json.loads(text): a later pair of the same key wins
json_loads(s) ==
    [k \in {s[i][1] : i \in DOMAIN s} |->
        s[CHOOSE i \in DOMAIN s :
            /\ s[i][1] = k
            /\ \A j \in DOMAIN s : s[j][1] = k => j <= i][2]]

----------------------------------------------------------------------------
(* Date and time strings: a str is the tuple of its characters *)

Digits == <<"0", "1", "2", "3", "4", "5", "6", "7", "8", "9">>

IsDigit(c) == \E i \in DOMAIN Digits : Digits[i] = c

DigitVal(c) == (CHOOSE i \in DOMAIN Digits : Digits[i] = c) - 1

\* `ch in s`
Contains(s, ch) == \E i \in DOMAIN s : s[i] = ch

\* the decimal value of a non-empty run of digits
RECURSIVE IntOf(_)
IntOf(ds) ==
    IF Len(ds) = 0 THEN 0
    ELSE IntOf(SubSeq(ds, 1, Len(ds) - 1)) * 10 + DigitVal(ds[Len(ds)])

IsNumber(ds, minLen, maxLen) ==
    /\ Len(ds) >= minLen
    /\ Len(ds) <= maxLen
    /\ \A i \in DOMAIN ds : IsDigit(ds[i])

\* s.split(sep)
RECURSIVE Split(_, _)
Split(s, sep) ==
    IF ~Contains(s, sep) THEN <<s>>
    ELSE LET i == CHOOSE k \in DOMAIN s :
                    s[k] = sep /\ \A j \in 1..(k - 1) : s[j] # sep
         IN  <<SubSeq(s, 1, i - 1)>> \o Split(SubSeq(s, i + 1, Len(s)), sep)

IsLeap(y) == (y % 4 = 0 /\ y % 100 # 0) \/ y % 400 = 0

DaysInMonth(y, m) ==
    IF m = 2 THEN (IF IsLeap(y) THEN 29 ELSE 28)
    ELSE IF m \in {4, 6, 9, 11} THEN 30 ELSE 31

\* a date from its year, month and day fields, None when datetime rejects them
MakeDate(ys, ms, ds) ==
    IF /\ IsNumber(ys, 4, 4)
       /\ IsNumber(ms, 1, 2)
       /\ IsNumber(ds, 1, 2)
       /\ IntOf(ys) >= 1
       /\ IntOf(ms) \in 1..12
       /\ IntOf(ds) >= 1
       /\ IntOf(ds) <= DaysInMonth(IntOf(ys), IntOf(ms))
    THEN Some([year |-> IntOf(ys), month |-> IntOf(ms), day |-> IntOf(ds)])
    ELSE None

\* datetime.strptime(date, "%m/%d/%Y")
strptime_mdy(date) ==
    LET p == Split(date, "/")
    IN  IF Len(p) = 3 THEN MakeDate(p[3], p[1], p[2]) ELSE None

\* datetime.strptime(date, "%Y-%m-%d")
strptime_ymd(date) ==
    LET p == Split(date, "-")
    IN  IF Len(p) = 3 THEN MakeDate(p[1], p[2], p[3]) ELSE None

\* datetime.strptime(time, "%H:%M").time()
strptime_hm(time) ==
    LET p == Split(time, ":")
    IN  IF /\ Len(p) = 2
           /\ IsNumber(p[1], 1, 2)
           /\ IsNumber(p[2], 1, 2)
           /\ IntOf(p[1]) <= 23
           /\ IntOf(p[2]) <= 59
        THEN Some([hour |-> IntOf(p[1]), minute |-> IntOf(p[2])])
        ELSE None

\* datetime.strptime(time, "%I:%M %p").time()
strptime_imp(time) ==
    LET p == Split(time, ":")
        q == IF Len(p) = 2 THEN Split(p[2], " ") ELSE <<>>
    IN  IF /\ Len(p) = 2
           /\ Len(q) = 2
           /\ IsNumber(p[1], 1, 2)
           /\ IsNumber(q[1], 1, 2)
           /\ IntOf(p[1]) \in 1..12
           /\ IntOf(q[1]) <= 59
           /\ q[2] \in {<<"A", "M">>, <<"P", "M">>}
        THEN Some([hour |-> (IntOf(p[1]) % 12)
                              + (IF q[2] = <<"P", "M">> THEN 12 ELSE 0),
                   minute |-> IntOf(q[1])])
        ELSE None

\* CalendarService._parse_datetime: None stands for the ValueError it raises
_parse_datetime(date, time) ==
    LET date_obj == IF Contains(date, "/") THEN strptime_mdy(date)
                    ELSE strptime_ymd(date)
        time_obj == IF Contains(time, ":") THEN strptime_hm(time)
                    ELSE strptime_imp(time)
    IN  IF date_obj = None \/ time_obj = None THEN None
        ELSE Some([year |-> date_obj[1].year, month |-> date_obj[1].month,
                   day |-> date_obj[1].day, hour |-> time_obj[1].hour,
                   minute |-> time_obj[1].minute])

\* the day after (y, m, d)
NextDay(dt) ==
    IF dt.day < DaysInMonth(dt.year, dt.month)
    THEN [dt EXCEPT !.day = dt.day + 1]
    ELSE IF dt.month < 12
         THEN [dt EXCEPT !.day = 1, !.month = dt.month + 1]
         ELSE [dt EXCEPT !.day = 1, !.month = 1, !.year = dt.year + 1]

\* dt + timedelta(hours=1)
PlusOneHour(dt) ==
    IF dt.hour < 23 THEN [dt EXCEPT !.hour = dt.hour + 1]
    ELSE [NextDay(dt) EXCEPT !.hour = 0]

\* dt + timedelta(days=n): None stands for the OverflowError datetime
\* raises past the year 9999
RECURSIVE AddDays(_, _)
AddDays(dt, n) ==
    IF n = 0 THEN Some(dt)
    ELSE IF NextDay(dt).year > 9999 THEN None
    ELSE AddDays(NextDay(dt), n - 1)

\* dt + timedelta(hours=1) raises OverflowError
HourOverflows(dt) == PlusOneHour(dt).year > 9999

\* str(n) for n >= 0
RECURSIVE DecimalOf(_)
DecimalOf(n) ==
    IF n < 10 THEN <<Digits[n + 1]>>
    ELSE DecimalOf(n \div 10) \o <<Digits[(n % 10) + 1]>>

\* ds.zfill(w)
RECURSIVE ZeroPad(_, _)
ZeroPad(ds, w) == IF Len(ds) >= w THEN ds ELSE ZeroPad(<<"0">> \o ds, w)

\* dt.strftime("%Y-%m-%d"): the C library decides whether a year below 1000
\* is padded to four digits (pads) or not
strftime_ymd(dt, pads) ==
    (IF pads THEN ZeroPad(DecimalOf(dt.year), 4) ELSE DecimalOf(dt.year))
    \o <<"-">> \o ZeroPad(DecimalOf(dt.month), 2)
    \o <<"-">> \o ZeroPad(DecimalOf(dt.day), 2)

\* dt.strftime("%H:%M")
strftime_hm(dt) ==
    ZeroPad(DecimalOf(dt.hour), 2) \o <<":">> \o ZeroPad(DecimalOf(dt.minute), 2)

\* the date and time texts of the drafts
Str_2024_01_15 == <<"2", "0", "2", "4", "-", "0", "1", "-", "1", "5">>
Str_14_00 == <<"1", "4", ":", "0", "0">>

\* the start dates and times of the recurring series
Str_2024_02_25 == <<"2", "0", "2", "4", "-", "0", "2", "-", "2", "5">>
Str_0999_12_30 == <<"0", "9", "9", "9", "-", "1", "2", "-", "3", "0">>
Str_9999_12_22 == <<"9", "9", "9", "9", "-", "1", "2", "-", "2", "2">>
Str_9999_12_25 == <<"9", "9", "9", "9", "-", "1", "2", "-", "2", "5">>
Str_01_15_2024 == <<"0", "1", "/", "1", "5", "/", "2", "0", "2", "4">>
Str_23_30 == <<"2", "3", ":", "3", "0">>
Str_empty == <<>>

----------------------------------------------------------------------------
(* Drafts: the dicts the handlers build (execution_agent.py 140-146, 206-213) *)

EmailDraft(u, to, subject, body) ==
    [type |-> "email", to |-> to, subject |-> subject, body |-> body,
     user_id |-> u]

CalendarDraft(u, title, date, time, description) ==
    [type |-> "calendar", title |-> title, date |-> date, time |-> time,
     description |-> description, user_id |-> u]

\* the confirmation_data values set_pending_confirmation is called with
Drafts(u) ==
    { EmailDraft(u, "john@example.com", "Hi", "..."),
      CalendarDraft(u, "Standup", Str_2024_01_15, Str_14_00, "daily sync"),
      CalendarDraft(u, "New Event", Str_empty, Str_empty, ""),
      [type |-> "note", user_id |-> u] }

\* the draft staged where other calls are interleaved with the protocol
PendingDrafts(u) == {EmailDraft(u, "john@example.com", "Hi", "...")}

----------------------------------------------------------------------------
(* MemoryManager: the pending_confirmations table (memory_manager.py 71-78) *)

\* a row; sid is a history field: the number of the set_pending_confirmation
\* call that wrote the row
Row(u, data, t, sid) ==
    [user_id |-> u, confirmation_data |-> data, created_at |-> t, sid |-> sid]

\* SELECT ... WHERE user_id = ?
SelectWhere(rows, u) == {r \in rows : r.user_id = u}

\* cursor.fetchone()
fetchone(rs) == IF rs = {} THEN None ELSE Some(CHOOSE r \in rs : TRUE)

\* mutant: a plain INSERT into a table without the primary key
InsertOnly(rows, row) == rows \cup {row}

\* mutant: INSERT OR IGNORE, the row already there stays
InsertOrIgnore(rows, row) ==
    IF \E r \in rows : r.user_id = row.user_id THEN rows ELSE rows \cup {row}

\* INSERT OR REPLACE: user_id is the PRIMARY KEY, the conflicting row goes
InsertOrReplace(rows, row) ==
    {r \in rows : r.user_id # row.user_id} \cup {row}

\* mutant: a DELETE without its WHERE condition
DeleteAll(rows, u) == {}

\* mutant: the WHERE condition inverted
DeleteOthers(rows, u) == {r \in rows : r.user_id = u}

\* DELETE FROM pending_confirmations WHERE user_id = ?
DeleteWhere(rows, u) == {r \in rows : r.user_id # u}

\* mutant: a row older than two readings of the clock counts as expired
GetPendingUnlessExpired(rows, u, ok) ==
    IF ~ok THEN None
    ELSE LET res == fetchone(SelectWhere(rows, u))
         IN  IF res # None /\ res[1].created_at + 2 >= now
             THEN Some(json_loads(res[1].confirmation_data))
             ELSE None

\* get_pending_confirmation: ok = FALSE is a raising sqlite call
get_pending_confirmation(rows, u, ok) ==
    IF ~ok THEN None
    ELSE LET res == fetchone(SelectWhere(rows, u))
         IN  IF res # None THEN Some(json_loads(res[1].confirmation_data))
             ELSE None

\* the table after set_pending_confirmation
set_pending_confirmation(rows, u, confirmation_data, t, sid, ok) ==
    IF ~ok THEN rows
    ELSE InsertOrReplace(rows, Row(u, json_dumps(confirmation_data), t, sid))

\* mutant: the DELETE is never committed
ClearUncommitted(rows, u, ok) == rows

\* the table after clear_pending_confirmation
clear_pending_confirmation(rows, u, ok) ==
    IF ~ok THEN rows ELSE DeleteWhere(rows, u)

\* history: the staging whose row get_pending_confirmation read (0: none)
ReadSid(rows, u, ok) ==
    IF ok /\ SelectWhere(rows, u) # {}
    THEN fetchone(SelectWhere(rows, u))[1].sid ELSE 0

----------------------------------------------------------------------------
(* EmailService.send_email (email_service.py 115-144) *)

\* the email handed to the backend; t is the clock
email_data(to, subject, body, u, t) ==
    [to |-> to, subject |-> subject, body |-> body,
     from |-> <<u, "@gmail.com">>, timestamp |-> t]

\* the dict send_email returns
send_email(to, subject, body, u, t) ==
    [success |-> TRUE, message_id |-> <<"msg_", t>>,
     details |-> <<"Email sent to ", to>>]

----------------------------------------------------------------------------
(* CalendarService.create_event (calendar_service.py 33-77) *)

\* the entry create_event appends to events_cache[user_id]
event_entry(title, start, description, t) ==
    [id |-> <<"event_", t>>, title |-> title, start_time |-> start,
     end_time |-> PlusOneHour(start), description |-> description,
     location |-> None, attendees |-> <<>>]

\* the start of the event create_event stores: None when _parse_datetime
\* raises or when start + timedelta(hours=1) does (lines 39-40)
EventStart(date, time) ==
    LET start == _parse_datetime(date, time)
    IN  IF start = None THEN None
        ELSE IF HourOverflows(start[1]) THEN None
        ELSE start

\* the cache after create_event: unchanged when the try block raises
create_event_cache(cache, title, date, time, description, u, t) ==
    LET start == EventStart(date, time)
    IN  IF start = None THEN cache
        ELSE [cache EXCEPT ![u] =
                 Append(@, event_entry(title, start[1], description, t))]

\* the dict create_event returns
create_event(title, date, time, description, u, t) ==
    LET start == _parse_datetime(date, time)
    IN  IF start = None
        THEN [success |-> FALSE,
              error |-> [text |-> "Invalid date/time format: ",
                         date |-> date, time |-> time]]
        ELSE IF HourOverflows(start[1])
        THEN [success |-> FALSE,
              error |-> [text |-> "date value out of range"]]
        ELSE [success |-> TRUE, event_id |-> <<"event_", t>>,
              details |-> [text |-> <<"Event '", title, "' created for ">>,
                           start |-> start[1]]]

\* for i in range(10), line 227
Occurrences == 10

\* mutant: a pattern that is not known is taken as daily
FrequencyDaysDefaultDaily(recurrence) ==
    CASE recurrence = "weekly" -> 7
      [] recurrence = "monthly" -> 30
      [] OTHER -> 1

\* the timedelta of a recurrence pattern in days, 0 for an unsupported one
\* (lines 211-218)
FrequencyDays(recurrence) ==
    CASE recurrence = "daily" -> 1
      [] recurrence = "weekly" -> 7
      [] recurrence = "monthly" -> 30
      [] OTHER -> 0

\* the create_event call of one pass of the loop, as a record of the calls
\* made: its arguments, whether it succeeded and the id it returned
OccurrenceCall(i, title, date, time, description, u, t) ==
    [op |-> "create_event", user |-> u, occurrence |-> i,
     args |-> [title |-> title, date |-> date, time |-> time,
               description |-> description],
     success |-> create_event(title, date, time, description, u, t).success,
     id |-> Get(create_event(title, date, time, description, u, t),
                "event_id", None)]

\* one pass of the loop of lines 227-239 from the locals a: the call, the
\* count and the advance of the cursor (None when the advance raises)
Pass(i, a, in) ==
    LET date == strftime_ymd(a.cursor, in.pads)
        time == strftime_hm(a.cursor)
        title == <<in.title, " (Recurring ", i + 1, ")">>
        ok == EventStart(date, time) # None
        t == IF ok THEN a.t + 1 ELSE a.t
        next == AddDays(a.cursor, in.days)
    IN  [cursor |-> next,
         cache |-> create_event_cache(a.cache, title, date, time,
                                      in.description, in.u, t),
         t |-> t,
         created |-> IF ok THEN a.created + 1 ELSE a.created,
         issued |-> Append(a.issued,
                       OccurrenceCall(i, title, date, time, in.description,
                                      in.u, t))]

\* the loop from pass i on; the except branch of 247-251 ends it when the
\* advance of the cursor raises
RECURSIVE RecurringLoop(_, _, _)
RecurringLoop(i, acc, in) ==
    CHOOSE r \in
      { IF a.cursor = None
        THEN [result |-> [success |-> FALSE,
                          error |-> <<"date value out of range">>],
              events_cache |-> a.cache, now |-> a.t, issued |-> a.issued]
        ELSE IF i = Occurrences
        THEN [result |-> [success |-> TRUE, events_created |-> a.created,
                          details |-> <<"Created ">> \o DecimalOf(a.created)
                                        \o <<" recurring events">>],
              events_cache |-> a.cache, now |-> a.t, issued |-> a.issued]
        ELSE RecurringLoop(i + 1,
                           Pass(i, [a EXCEPT !.cursor = a.cursor[1]], in), in)
        : a \in {acc} } : TRUE

\* CalendarService.create_recurring_event(title, start_date, start_time,
\* description, recurrence, user_id), lines 204-251, from the cache and the
\* clock t: what it returns, the cache and the clock as it leaves them and
\* the create_event calls it issued
create_recurring_event(cache, title, start_date, start_time, description, recurrence, u, t, pads) ==
    LET start_datetime == _parse_datetime(start_date, start_time)
    IN  IF FrequencyDays(recurrence) = 0
        THEN [result |-> [success |-> FALSE,
                          error |-> <<"Unsupported recurrence pattern">>],
              events_cache |-> cache, now |-> t, issued |-> <<>>]
        ELSE IF start_datetime = None
        THEN [result |-> [success |-> FALSE,
                          error |-> <<"Invalid date/time format: ">>
                                      \o start_date \o <<" ">> \o start_time],
              events_cache |-> cache, now |-> t, issued |-> <<>>]
        ELSE RecurringLoop(0,
                 [cursor |-> start_datetime, cache |-> cache, t |-> t,
                  created |-> 0, issued |-> <<>>],
                 [title |-> title, description |-> description,
                  days |-> FrequencyDays(recurrence), u |-> u,
                  pads |-> pads])

----------------------------------------------------------------------------
(* ExecutionAgent.execute_confirmed_action (execution_agent.py 409-453) *)

\* mutant: subject and body passed in each other's place
CallArgsSwapped(d) ==
    IF Get(d, "type", "") = "email"
    THEN [to |-> Get(d, "to", ""), subject |-> Get(d, "body", ""),
          body |-> Get(d, "subject", "")]
    ELSE [title |-> Get(d, "title", ""), date |-> Get(d, "date", ""),
          time |-> Get(d, "time", ""),
          description |-> Get(d, "description", "")]

\* the arguments of the backend create call made for a draft
CallArgs(d) ==
    IF Get(d, "type", "") = "email"
    THEN [to |-> Get(d, "to", ""), subject |-> Get(d, "subject", ""),
          body |-> Get(d, "body", "")]
    ELSE [title |-> Get(d, "title", ""), date |-> Get(d, "date", ""),
          time |-> Get(d, "time", ""),
          description |-> Get(d, "description", "")]

\* the backend operation a draft of this type is executed by ("": none)
BackendOp(d) ==
    IF Get(d, "type", "") = "email" THEN "send_email"
    ELSE IF Get(d, "type", "") = "calendar" THEN "create_event"
    ELSE ""

\* what the backend create call returns; t is the clock when it makes the id
BackendReturn(d, u, t) ==
    LET a == CallArgs(d)
    IN  IF BackendOp(d) = "send_email"
        THEN send_email(a.to, a.subject, a.body, u, t)
        ELSE create_event(a.title, a.date, a.time, a.description, u, t)

\* the dict execute_confirmed_action returns
execute_confirmed_action(d, u, t) ==
    LET action_type == Get(d, "type", "")
        r == BackendReturn(d, u, t)
    IN  IF action_type = "email"
        THEN [success |-> Get(r, "success", FALSE),
              task_type |-> "email_sent",
              details |-> <<"Email sent to ", Get(d, "to", "")>>,
              message_id |-> Get(r, "message_id", None)]
        ELSE IF action_type = "calendar"
        THEN [success |-> Get(r, "success", FALSE),
              task_type |-> "calendar_created",
              details |-> <<"Event '", Get(d, "title", ""), "' created">>,
              event_id |-> Get(r, "event_id", None)]
        ELSE [success |-> FALSE,
              error |-> <<"Unknown action type: ", action_type>>,
              task_type |-> "unknown"]

----------------------------------------------------------------------------
(* MainPokeAgent (main_poke_agent.py) *)

\* task_type.replace('_', ' ').title()
TitleCase(task_type) ==
    CASE task_type = "unknown" -> "Unknown"
      [] task_type = "task" -> "Task"
      [] OTHER -> task_type

\* _format_completion_message (lines 152-162)
_format_completion_message(execution_result) ==
    LET task_type == Get(execution_result, "task_type", "task")
        details == Get(execution_result, "details", <<>>)
    IN  IF task_type = "email_sent"
        THEN <<"Email sent successfully! ">> \o details
        ELSE IF task_type = "calendar_created"
        THEN <<"Calendar event created! ">> \o details
        ELSE <<TitleCase(task_type), " completed! ">> \o details

\* the reaction glyphs, by name (lines 274-275)
positive_emojis ==
    <<"thumbs_up", "red_heart", "smiling_face", "party_popper", "check_mark",
      "ok_hand">>
negative_emojis ==
    <<"thumbs_down", "pouting_face", "cross_mark", "vomiting_face",
      "thumbs_down">>

\* `x in list`
InList(list, x) == \E i \in DOMAIN list : list[i] = x

\* mutant: every glyph of either list counts as a yes
IsAnyListed(reaction) ==
    InList(positive_emojis, reaction) \/ InList(negative_emojis, reaction)

\* mutant: whatever is not a yes counts as a no
IsNotPositive(reaction) == ~InList(positive_emojis, reaction)

is_positive(reaction) == InList(positive_emojis, reaction)

is_negative(reaction) == InList(negative_emojis, reaction)

\* the reactions a user sends: glyphs of both lists, and another glyph
Reactions == {"ok_hand", "thumbs_down", "shrug"}

NothingPending == <<"I don't have anything pending for confirmation.">>
WontProceed == <<"Got it, I won't proceed with that.">>
NotSure == <<"I'm not sure what that reaction means. Please use thumbs_up for yes or thumbs_down for no.">>

----------------------------------------------------------------------------
(* Text.  `x in text` and text.lower() are decided on the words of the     *)
(* text: Words gives the lowercased words of every text the model uses,    *)
(* and a needle is in a text when its words are consecutive words of it.   *)

Words(s) ==
    CASE s = "" -> <<>>
      [] s = "Meeting" -> <<"meeting">>
      [] s = "sync" -> <<"sync">>
      [] s = "hello" -> <<"hello">>
      [] s = "Find the meeting" -> <<"find", "the", "meeting">>
      [] s = "Meeting Tomorrow" -> <<"meeting", "tomorrow">>
      [] s = "Hi, just confirming our meeting tomorrow at 2pm..." ->
            <<"hi,", "just", "confirming", "our", "meeting", "tomorrow",
              "at", "2pm...">>
      [] s = "Project Update" -> <<"project", "update">>
      [] s = "Here's the latest update on the project..." ->
            <<"here's", "the", "latest", "update", "on", "the",
              "project...">>
      [] s = "Project Planning Document" ->
            <<"project", "planning", "document">>
      [] s = "This document contains our project planning details..." ->
            <<"this", "document", "contains", "our", "project", "planning",
              "details...">>
      [] s = "Meeting Notes - Q1 Planning" ->
            <<"meeting", "notes", "-", "q1", "planning">>
      [] s = "Notes from our Q1 planning meeting..." ->
            <<"notes", "from", "our", "q1", "planning", "meeting...">>
      [] s = "Fix login bug" -> <<"fix", "login", "bug">>
      [] s = "Users are unable to login with certain credentials" ->
            <<"users", "are", "unable", "to", "login", "with", "certain",
              "credentials">>
      [] s = "Add dark mode support" -> <<"add", "dark", "mode", "support">>
      [] s = "Implement dark mode theme for the application" ->
            <<"implement", "dark", "mode", "theme", "for", "the",
              "application">>
      [] s = "Standup" -> <<"standup">>
      [] s = "daily sync" -> <<"daily", "sync">>
      [] s = "New Event" -> <<"new", "event">>
      [] s = "Google Calendar" -> <<"google", "calendar">>
      [] OTHER -> <<s>>

\* needle in hay, both word lists
IsInfix(needle, hay) ==
    \E i \in 0..(Len(hay) - Len(needle)) :
        \A j \in 1..Len(needle) : hay[i + j] = needle[j]

\* needle.lower() in text.lower()
LowerIn(needle, text) ==
    \E n \in {Words(needle)}, h \in {Words(text)} : IsInfix(n, h)

\* list[:n]
Take(list, n) == SubSeq(list, 1, IF Len(list) < n THEN Len(list) ELSE n)

\* list[-n:]
LastN(list, n) ==
    SubSeq(list, IF Len(list) > n THEN Len(list) - n + 1 ELSE 1, Len(list))

\* the concatenation of a list of lists
RECURSIVE Flatten(_)
Flatten(lists) ==
    IF lists = <<>> THEN <<>> ELSE Head(lists) \o Flatten(Tail(lists))

\* a call that returned v, and a call that raised e
Return(v) == [raised |-> "", value |-> v]
Raise(e) == [raised |-> e]

----------------------------------------------------------------------------
(* The search backends *)

\* EmailService.search_emails: the mock mailbox (email_service.py 49-66)
mock_emails ==
    << [id |-> "email_001", sender |-> "john@example.com",
        subject |-> "Meeting Tomorrow",
        snippet |-> "Hi, just confirming our meeting tomorrow at 2pm...",
        date |-> "2024-01-15T14:30:00Z", thread_id |-> "thread_001"],
       [id |-> "email_002", sender |-> "sarah@company.com",
        subject |-> "Project Update",
        snippet |-> "Here's the latest update on the project...",
        date |-> "2024-01-15T10:15:00Z", thread_id |-> "thread_002"] >>

\* EmailService.search_emails(user_id, query), limit = 10
search_emails(u, query) ==
    Take(SelectSeq(mock_emails,
                   LAMBDA email : \/ LowerIn(query, email.subject)
                                  \/ LowerIn(query, email.snippet)
                                  \/ LowerIn(query, email.sender)), 10)

\* the test search_events applies to an event: "match", "skip", or "raise"
\* when title and description do not match and event.get("location", "")
\* is the stored None, whose .lower() raises
EventTest(event, query) ==
    IF LowerIn(query, event.title) \/ LowerIn(query, event.description)
    THEN "match"
    ELSE IF event.location = None THEN "raise"
    ELSE IF LowerIn(query, event.location[1]) THEN "match"
    ELSE "skip"

\* CalendarService.search_events(user_id, query), limit = 10: the except
\* branch turns a raise into the empty list
search_events(cache, u, query) ==
    IF \E i \in DOMAIN cache[u] : EventTest(cache[u][i], query) = "raise"
    THEN <<>>
    ELSE Take(SelectSeq(cache[u],
                        LAMBDA event : EventTest(event, query) = "match"), 10)

\* IntegrationManager.search_notion: the mock pages (integration_manager.py 23-40)
mock_notion ==
    << [id |-> "notion_001", title |-> "Project Planning Document",
        content |-> "This document contains our project planning details...",
        url |-> "https://notion.so/project-planning",
        last_modified |-> "2024-01-15T10:30:00Z", source |-> "notion"],
       [id |-> "notion_002", title |-> "Meeting Notes - Q1 Planning",
        content |-> "Notes from our Q1 planning meeting...",
        url |-> "https://notion.so/meeting-notes",
        last_modified |-> "2024-01-14T15:45:00Z", source |-> "notion"] >>

search_notion(u, query) ==
    SelectSeq(mock_notion,
              LAMBDA result : \/ LowerIn(query, result.title)
                              \/ LowerIn(query, result.content))

\* IntegrationManager.search_linear: the mock issues
mock_linear ==
    << [id |-> "linear_001", title |-> "Fix login bug",
        description |-> "Users are unable to login with certain credentials",
        status |-> "In Progress", priority |-> "High",
        assignee |-> "John Doe", url |-> "https://linear.app/issue/001",
        created_at |-> "2024-01-15T09:00:00Z", source |-> "linear"],
       [id |-> "linear_002", title |-> "Add dark mode support",
        description |-> "Implement dark mode theme for the application",
        status |-> "Todo", priority |-> "Medium",
        assignee |-> "Jane Smith", url |-> "https://linear.app/issue/002",
        created_at |-> "2024-01-14T14:20:00Z", source |-> "linear"] >>

search_linear(u, query) ==
    SelectSeq(mock_linear,
              LAMBDA result : \/ LowerIn(query, result.title)
                              \/ LowerIn(query, result.description))

----------------------------------------------------------------------------
(* TriggerManager (trigger_manager.py 31-85) *)

\* self.triggers[trigger_id] = trigger: a new key goes to the end, an
\* existing key keeps its place
PutTrigger(store, trigger) ==
    IF \E i \in DOMAIN store : store[i].id = trigger.id
    THEN [i \in DOMAIN store |->
             IF store[i].id = trigger.id THEN trigger ELSE store[i]]
    ELSE Append(store, trigger)

\* mutant: the reminder is stored under the type name "reminder"
ReminderTriggerNamedReminder(u, message, trigger_time, t) ==
    [id |-> <<"reminder_", t + 1>>, user_id |-> u,
     trigger_type |-> "reminder", condition |-> trigger_time,
     action |-> <<"Remind user: ", message>>,
     active |-> TRUE, created_at |-> t + 2]

\* the Trigger create_reminder stores; t is the clock before the call
reminder_trigger(u, message, trigger_time, t) ==
    [id |-> <<"reminder_", t + 1>>, user_id |-> u, trigger_type |-> "cron",
     condition |-> trigger_time, action |-> <<"Remind user: ", message>>,
     active |-> TRUE, created_at |-> t + 2]

\* the dict create_reminder returns
create_reminder(u, message, trigger_time, t) ==
    [success |-> TRUE, trigger_id |-> <<"reminder_", t + 1>>,
     details |-> <<"Reminder set for ", trigger_time>>]

\* the Trigger create_email_automation stores
automation_trigger(u, condition, action, t) ==
    [id |-> <<"automation_", t + 1>>, user_id |-> u, trigger_type |-> "email",
     condition |-> condition, action |-> action,
     active |-> TRUE, created_at |-> t + 2]

\* the dict create_email_automation returns
create_email_automation(u, condition, action, t) ==
    [success |-> TRUE, trigger_id |-> <<"automation_", t + 1>>,
     details |-> <<"Email automation created">>]

\* created_at.isoformat()
isoformat(t) == [iso |-> t]

\* TriggerManager.get_user_triggers(user_id), lines 87-101
get_user_triggers(store, u) ==
    LET mine == SelectSeq(store, LAMBDA trigger : trigger.user_id = u)
    IN  [i \in DOMAIN mine |->
            [id |-> mine[i].id, type |-> mine[i].trigger_type,
             condition |-> mine[i].condition, action |-> mine[i].action,
             active |-> mine[i].active,
             created_at |-> isoformat(mine[i].created_at)]]

\* mutant: the owner of the trigger is not looked at
DeleteTriggerAnyOwner(store, trigger_id, u) ==
    SelectSeq(store, LAMBDA trigger : trigger.id # trigger_id)

\* the store after delete_trigger(trigger_id, user_id), lines 106-109
delete_trigger_store(store, trigger_id, u) ==
    SelectSeq(store, LAMBDA trigger :
                ~(trigger.id = trigger_id /\ trigger.user_id = u))

\* the dict delete_trigger(trigger_id, user_id) returns, lines 106-123
delete_trigger(store, trigger_id, u) ==
    IF \E i \in DOMAIN store : store[i].id = trigger_id
    THEN IF \E i \in DOMAIN store :
                store[i].id = trigger_id /\ store[i].user_id = u
         THEN [success |-> TRUE,
               details |-> <<"Trigger ", trigger_id, " deleted">>]
         ELSE [success |-> FALSE,
               error |-> <<"Trigger not found or access denied">>]
    ELSE [success |-> FALSE, error |-> <<"Trigger not found">>]

\* mutant: the triggers of every user are reported
CheckTriggersAllUsers(store, u, trigger_type) ==
    LET hits == SelectSeq(store, LAMBDA trigger :
                    /\ trigger.active
                    /\ trigger_type = None
                         \/ trigger.trigger_type = trigger_type[1])
    IN  [i \in DOMAIN hits |->
            [trigger_id |-> hits[i].id, action |-> hits[i].action,
             condition |-> hits[i].condition]]

\* TriggerManager.check_triggers(user_id, trigger_type), lines 131-145;
\* trigger_type is None or Some(type)
check_triggers(store, u, trigger_type) ==
    LET hits == SelectSeq(store, LAMBDA trigger :
                    /\ trigger.user_id = u
                    /\ trigger.active
                    /\ trigger_type = None
                         \/ trigger.trigger_type = trigger_type[1])
    IN  [i \in DOMAIN hits |->
            [trigger_id |-> hits[i].id, action |-> hits[i].action,
             condition |-> hits[i].condition]]

----------------------------------------------------------------------------
(* ExecutionAgent: the task handlers (execution_agent.py 40-407).          *)
(* A handler yields [result, calls, triggers, events_cache, reads]: what it *)
(* returns or raises, the backend calls it issued, the trigger store and    *)
(* the events cache as it leaves them, and the clock reads it kept; t is    *)
(* the clock when the handler starts.                                       *)

EmptyDict == <<>>

\* a handler that touched nothing
Pure(result, issued) ==
    [result |-> result, calls |-> issued, triggers |-> triggers,
     events_cache |-> events_cache, reads |-> 0]

\* a backend search call
SearchCall(op, u, query) == [op |-> op, user |-> u, query |-> query]

\* _check_gmail_authentication(user_id), lines 393-401
_check_gmail_authentication(u) == FALSE

\* _check_calendar_authentication(user_id), lines 403-407
_check_calendar_authentication(u) == FALSE

\* the link _handle_authentication_task builds for gmail (line 359)
GmailAuthUrl(u, auth_token) ==
    <<"https://web-production-d8e63.up.railway.app/auth-web?token=",
      auth_token, "&user_id=", u>>

\* the link it builds for calendar (line 375)
CalendarAuthUrl(u, auth_token) ==
    <<"https://web-production-d8e63.up.railway.app/auth-web?token=",
      auth_token, "&user_id=", u, "&service=calendar">>

\* _handle_authentication_task(task_analysis, user_id); auth_token is the
\* uuid4 it draws
_handle_authentication_task(task_analysis, u, auth_token) ==
    LET parameters == Get(task_analysis, "parameters", EmptyDict)
        service == Get(parameters, "service", "")
    IN  IF \/ LowerIn("gmail", service) \/ LowerIn("email", service)
           \/ LowerIn("google", service)
        THEN [success |-> TRUE, task_type |-> "authentication",
              service |-> "gmail",
              auth_url |-> GmailAuthUrl(u, auth_token),
              message |->
                <<"To access your Gmail, please click this authentication link: ">>
                \o GmailAuthUrl(u, auth_token),
              needs_user_action |-> TRUE]
        ELSE IF LowerIn("calendar", service)
        THEN [success |-> TRUE, task_type |-> "authentication",
              service |-> "calendar",
              auth_url |-> CalendarAuthUrl(u, auth_token),
              message |->
                <<"To access your Google Calendar, please click this authentication link: ">>
                \o CalendarAuthUrl(u, auth_token),
              needs_user_action |-> TRUE]
        ELSE [success |-> FALSE,
              error |-> <<"Authentication not supported for service: ">>
                        \o Words(service),
              task_type |-> "authentication"]

\* mutant: the credential is checked only where a draft would be built
EmailTaskCheckLast(task_analysis, u, auth_token) ==
    LET action == Get(task_analysis, "action", "")
        parameters == Get(task_analysis, "parameters", EmptyDict)
        query == Get(parameters, "query", "")
    IN  IF action = "search"
        THEN Pure(Return([success |-> TRUE, task_type |-> "email_search",
                          results |-> search_emails(u, query)]),
                  <<SearchCall("search_emails", u, query)>>)
        ELSE Pure(Return(_handle_authentication_task(
                    [task_type |-> "authentication", action |-> "authenticate",
                     parameters |-> [service |-> "gmail"]], u, auth_token)),
                  <<>>)

\* _handle_email_task(task_analysis, user_id), lines 120-186
_handle_email_task(task_analysis, u, auth_token) ==
    LET action == Get(task_analysis, "action", "")
        parameters == Get(task_analysis, "parameters", EmptyDict)
        has_gmail_auth == _check_gmail_authentication(u)
        draft == [type |-> "email",
                  to |-> Get(parameters, "recipient", ""),
                  subject |-> Get(parameters, "subject", ""),
                  body |-> Get(parameters, "body", ""),
                  user_id |-> u]
        query == Get(parameters, "query", "")
    IN  IF ~has_gmail_auth
        THEN Pure(Return(_handle_authentication_task(
                    [task_type |-> "authentication", action |-> "authenticate",
                     parameters |-> [service |-> "gmail"]], u, auth_token)),
                  <<>>)
        ELSE IF action = "send" \/ action = "compose"
        THEN Pure(Return([needs_confirmation |-> TRUE, draft |-> draft,
                          task_type |-> "email_compose"]), <<>>)
        ELSE IF action = "search"
        THEN Pure(Return([success |-> TRUE, task_type |-> "email_search",
                          results |-> search_emails(u, query)]),
                  <<SearchCall("search_emails", u, query)>>)
        ELSE Pure(Return([success |-> FALSE,
                          error |-> <<"Unknown email action: ", action>>,
                          task_type |-> "email"]), <<>>)

\* _handle_calendar_task(task_analysis, user_id), lines 188-237
_handle_calendar_task(task_analysis, u, auth_token) ==
    LET action == Get(task_analysis, "action", "")
        parameters == Get(task_analysis, "parameters", EmptyDict)
        has_calendar_auth == _check_calendar_authentication(u)
        draft == [type |-> "calendar",
                  title |-> Get(parameters, "title", "New Event"),
                  date |-> Get(parameters, "date", Str_empty),
                  time |-> Get(parameters, "time", Str_empty),
                  description |-> Get(parameters, "description", ""),
                  user_id |-> u]
        query == Get(parameters, "query", "")
    IN  IF ~has_calendar_auth
        THEN Pure(Return(_handle_authentication_task(
                    [task_type |-> "authentication", action |-> "authenticate",
                     parameters |-> [service |-> "calendar"]], u, auth_token)),
                  <<>>)
        ELSE IF action = "create"
        THEN Pure(Return([needs_confirmation |-> TRUE, draft |-> draft,
                          task_type |-> "calendar_create"]), <<>>)
        ELSE IF action = "search"
        THEN Pure(Return([success |-> TRUE, task_type |-> "calendar_search",
                          results |-> search_events(events_cache, u, query)]),
                  <<SearchCall("search_events", u, query)>>)
        ELSE Pure(Return([success |-> FALSE,
                          error |-> <<"Unknown calendar action: ", action>>,
                          task_type |-> "calendar"]), <<>>)

\* mutant: the source tags in alphabetical order
SourcesByName == <<"calendar", "email", "linear", "notion">>

\* the source tags of _handle_search_task, in the order of its search_tasks
sources == <<"email", "calendar", "notion", "linear">>

\* item["source"] = source
Tagged(item, source) ==
    [f \in DOMAIN item \cup {"source"} |->
        IF f = "source" THEN source ELSE item[f]]

\* what asyncio.gather(*search_tasks, return_exceptions=True) hands back;
\* outs[i] names the exception that escaped the i-th coroutine ("": none)
gather(cache, u, query, outs) ==
    << IF outs[1] # "" THEN Raise(outs[1])
       ELSE Return(search_emails(u, query)),
       IF outs[2] # "" THEN Raise(outs[2])
       ELSE Return(search_events(cache, u, query)),
       IF outs[3] # "" THEN Raise(outs[3])
       ELSE Return(search_notion(u, query)),
       IF outs[4] # "" THEN Raise(outs[4])
       ELSE Return(search_linear(u, query)) >>

\* mutant: gather without return_exceptions, one exception loses everything
CombineAllOrNothing(results) ==
    IF \E i \in 1..4 : results[i].raised # "" THEN <<>>
    ELSE Flatten([i \in 1..4 |->
            [j \in DOMAIN results[i].value |->
                Tagged(results[i].value[j], sources[i])]])

\* the loop of lines 254-260 over the gathered results
combined_results(results) ==
    Flatten([i \in 1..4 |->
        IF results[i].raised = "" /\ results[i].value # <<>>
        THEN [j \in DOMAIN results[i].value |->
                 Tagged(results[i].value[j], sources[i])]
        ELSE <<>>])

\* the events cache after the loop: the dicts search_events returned are the
\* cached ones, so the tag lands in the cache
SearchCache(cache, u, query, outs) ==
    IF outs[2] # "" \/ search_events(cache, u, query) = <<>> THEN cache
    ELSE [cache EXCEPT ![u] =
            [i \in DOMAIN @ |->
                IF /\ EventTest(@[i], query) = "match"
                   /\ Cardinality({j \in 1..i :
                          EventTest(@[j], query) = "match"}) <= 10
                THEN Tagged(@[i], "calendar") ELSE @[i]]]

\* _handle_search_task(task_analysis, user_id), lines 239-266
_handle_search_task(task_analysis, u, outs) ==
    LET query == Get(Get(task_analysis, "parameters", EmptyDict), "query", "")
    IN  [result |-> Return([success |-> TRUE, task_type |-> "search",
                            results |-> combined_results(
                                gather(events_cache, u, query, outs))]),
         calls |-> << SearchCall("search_emails", u, query),
                      SearchCall("search_events", u, query),
                      SearchCall("search_notion", u, query),
                      SearchCall("search_linear", u, query) >>,
         triggers |-> triggers,
         events_cache |-> SearchCache(events_cache, u, query, outs),
         reads |-> 0]

\* _handle_trigger_task(task_analysis, user_id), lines 268-309
_handle_trigger_task(task_analysis, u, t) ==
    LET action == Get(task_analysis, "action", "")
        parameters == Get(task_analysis, "parameters", EmptyDict)
        reminder == create_reminder(u, Get(parameters, "message", ""),
                                    Get(parameters, "time", ""), t)
        automation == create_email_automation(
                          u, Get(parameters, "condition", ""),
                          Get(parameters, "action", ""), t)
    IN  IF action = "remind"
        THEN [result |-> Return(
                 [success |-> TRUE, task_type |-> "trigger_created",
                  details |-> <<"Reminder set for ",
                                Get(parameters, "time", "specified time")>>,
                  trigger_id |-> Get(reminder, "id", None)]),
              calls |-> <<>>,
              triggers |-> PutTrigger(triggers,
                              reminder_trigger(u, Get(parameters, "message", ""),
                                               Get(parameters, "time", ""), t)),
              events_cache |-> events_cache,
              reads |-> 2]
        ELSE IF action = "automation"
        THEN [result |-> Return(
                 [success |-> TRUE, task_type |-> "automation_created",
                  details |-> <<"Email automation created">>,
                  trigger_id |-> Get(automation, "id", None)]),
              calls |-> <<>>,
              triggers |-> PutTrigger(triggers,
                              automation_trigger(
                                  u, Get(parameters, "condition", ""),
                                  Get(parameters, "action", ""), t)),
              events_cache |-> events_cache,
              reads |-> 2]
        ELSE Pure(Return([success |-> FALSE,
                          error |-> <<"Unknown trigger action: ", action>>,
                          task_type |-> "trigger"]), <<>>)

\* mutant: a known integration is searched whatever the action is
IntegrationTaskAnyAction(task_analysis, u) ==
    LET action == Get(task_analysis, "action", "")
        parameters == Get(task_analysis, "parameters", EmptyDict)
        integration == Get(parameters, "integration", "")
        query == Get(parameters, "query", "")
    IN  IF integration = "notion"
        THEN Pure(Return([success |-> TRUE, task_type |-> "notion_search",
                          results |-> search_notion(u, query)]),
                  <<SearchCall("search_notion", u, query)>>)
        ELSE IF integration = "linear"
        THEN Pure(Return([success |-> TRUE, task_type |-> "linear_search",
                          results |-> search_linear(u, query)]),
                  <<SearchCall("search_linear", u, query)>>)
        ELSE Pure(Return([success |-> FALSE,
                          error |-> <<"Unknown integration or action: ",
                                      integration, "/", action>>,
                          task_type |-> "integration"]), <<>>)

\* _handle_integration_task(task_analysis, user_id), lines 311-343
_handle_integration_task(task_analysis, u) ==
    LET action == Get(task_analysis, "action", "")
        parameters == Get(task_analysis, "parameters", EmptyDict)
        integration == Get(parameters, "integration", "")
        query == Get(parameters, "query", "")
    IN  IF integration = "notion" /\ action = "search"
        THEN Pure(Return([success |-> TRUE, task_type |-> "notion_search",
                          results |-> search_notion(u, query)]),
                  <<SearchCall("search_notion", u, query)>>)
        ELSE IF integration = "linear" /\ action = "search"
        THEN Pure(Return([success |-> TRUE, task_type |-> "linear_search",
                          results |-> search_linear(u, query)]),
                  <<SearchCall("search_linear", u, query)>>)
        ELSE Pure(Return([success |-> FALSE,
                          error |-> <<"Unknown integration or action: ",
                                      integration, "/", action>>,
                          task_type |-> "integration"]), <<>>)

\* a JSON text that decodes to the dict d, and one that decodes to a value
\* that is not a dict (a list, a number, a string, null)
JsonObject(d) == [isdict |-> TRUE, d |-> d]
JsonOther == [isdict |-> FALSE]

\* the descriptor _analyze_task falls back to (lines 112-118)
FallbackDescriptor ==
    [task_type |-> "other", action |-> "unknown", parameters |-> EmptyDict,
     needs_confirmation |-> TRUE, confidence |-> 0]

\* _analyze_task: reply is what openai.ChatCompletion.create did, an error
\* raised (outside the try) or the content of the first choice; json.loads
\* raises JSONDecodeError on a text that is not JSON and decodes any other
_analyze_task(reply) ==
    IF reply.api = "error" THEN Raise("APIError")
    ELSE IF reply.content.json = "invalid"
    THEN Return(JsonObject(FallbackDescriptor))
    ELSE Return(reply.content.value)

\* the router's task types (lines 49-59)
KnownTaskTypes ==
    {"email", "calendar", "search", "trigger", "integration", "authentication"}

\* mutant: an unknown task type is sent to the generic search handler
DispatchDefaultSearch(task_analysis, u, auth_token, outs, t) ==
    LET task_type == task_analysis.task_type
    IN  IF task_type = "email"
        THEN _handle_email_task(task_analysis, u, auth_token)
        ELSE IF task_type = "calendar"
        THEN _handle_calendar_task(task_analysis, u, auth_token)
        ELSE IF task_type = "trigger"
        THEN _handle_trigger_task(task_analysis, u, t)
        ELSE IF task_type = "integration"
        THEN _handle_integration_task(task_analysis, u)
        ELSE IF task_type = "authentication"
        THEN Pure(Return(_handle_authentication_task(task_analysis, u,
                                                     auth_token)), <<>>)
        ELSE _handle_search_task(task_analysis, u, outs)

\* the if/elif chain of process_task (lines 49-66)
Dispatch(task_analysis, u, auth_token, outs, t) ==
    LET task_type == task_analysis.task_type
    IN  IF task_type = "email"
        THEN _handle_email_task(task_analysis, u, auth_token)
        ELSE IF task_type = "calendar"
        THEN _handle_calendar_task(task_analysis, u, auth_token)
        ELSE IF task_type = "search"
        THEN _handle_search_task(task_analysis, u, outs)
        ELSE IF task_type = "trigger"
        THEN _handle_trigger_task(task_analysis, u, t)
        ELSE IF task_type = "integration"
        THEN _handle_integration_task(task_analysis, u)
        ELSE IF task_type = "authentication"
        THEN Pure(Return(_handle_authentication_task(task_analysis, u,
                                                     auth_token)), <<>>)
        ELSE Pure(Return([success |-> FALSE, error |-> <<"Unknown task type">>,
                          task_type |-> "unknown"]), <<>>)

\* process_task(task_description, user_id, context): task_analysis
\* ["task_type"] raises TypeError on a value that is not a dict and KeyError
\* on a dict without the key
process_task(reply, u, auth_token, outs, t) ==
    LET analysis == _analyze_task(reply)
    IN  IF analysis.raised # "" THEN Pure(analysis, <<>>)
        ELSE IF ~analysis.value.isdict THEN Pure(Raise("TypeError"), <<>>)
        ELSE IF "task_type" \notin DOMAIN analysis.value.d
        THEN Pure(Raise("KeyError"), <<>>)
        ELSE Dispatch(analysis.value.d, u, auth_token, outs, t)

----------------------------------------------------------------------------
(* MemoryManager: the user_memory table (memory_manager.py 83-171, 251-268). *)
(* A row carries the conversation summary; the three JSON columns          *)
(* (preferences, writing_style, important_topics) are computed from the    *)
(* message alone, are read by no operation below and are left out.         *)

\* the context get_user_context returns for a user without a row, and when
\* the sqlite call raises
DefaultContext == [conversation_summary |-> <<>>]

\* mutant: the context of the stored row, whether or not the sqlite call works
GetUserContextIgnoringFailure(rows, u, ok) ==
    IF SelectWhere(rows, u) = {} THEN DefaultContext
    ELSE [conversation_summary |->
             fetchone(SelectWhere(rows, u))[1].conversation_summary]

\* get_user_context(user_id)
get_user_context(rows, u, ok) ==
    IF ~ok \/ SelectWhere(rows, u) = {} THEN DefaultContext
    ELSE [conversation_summary |->
             fetchone(SelectWhere(rows, u))[1].conversation_summary]

\* f"{who}: {text[:100]}...", one entry of the summary text
SummaryEntry(who, text) == [who |-> who, text |-> text, cut |-> 100]

\* _update_conversation_summary: a summary text is the list of its entries,
\* joined by " | "; the current summary is one part of new_summary_parts
_update_conversation_summary(interaction, current_summary) ==
    LET user_message == Get(interaction, "user_message", "")
        agent_response == Get(interaction, "agent_response", <<>>)
        new_summary_parts ==
            (IF current_summary # <<>> THEN <<current_summary>> ELSE <<>>)
            \o (IF user_message # ""
                THEN << <<SummaryEntry("User", user_message)>> >> ELSE <<>>)
            \o (IF agent_response # <<>>
                THEN << <<SummaryEntry("Agent", agent_response)>> >> ELSE <<>>)
    IN  Flatten(LastN(new_summary_parts, 5))

\* what update_user_memory returns: True after the commit, False from the
\* except (lines 167 and 169-171); the read inside it never raises
update_user_memory_returns(okRead, okWrite) == okWrite

\* the table after update_user_memory(user_id, interaction); okRead and
\* okWrite tell whether its two sqlite calls work, t is the clock it stores
update_user_memory(rows, u, interaction, t, okRead, okWrite) ==
    LET current_context == get_user_context(rows, u, okRead)
    IN  IF ~okWrite THEN rows
        ELSE InsertOrReplace(rows,
               [user_id |-> u,
                conversation_summary |->
                    _update_conversation_summary(
                        interaction, current_context.conversation_summary),
                last_updated |-> t])

----------------------------------------------------------------------------
(* MemoryManager: the conversations table (memory_manager.py 60-69, 270-313) *)

\* the last message of a role, as a list of at most one
LastOfRole(messages, role) ==
    LastN(SelectSeq(messages, LAMBDA msg : Get(msg, "role", "") = role), 1)

\* _create_conversation_summary(messages): the parts joined by " | "
_create_conversation_summary(messages) ==
    LET user_messages == LastOfRole(messages, "user")
        agent_messages == LastOfRole(messages, "assistant")
    IN  (IF user_messages # <<>>
         THEN <<[who |-> "User discussed",
                 text |-> Get(user_messages[1], "content", ""), cut |-> 50]>>
         ELSE <<>>)
        \o (IF agent_messages # <<>>
            THEN <<[who |-> "Agent helped with",
                    text |-> Get(agent_messages[1], "content", ""),
                    cut |-> 50]>>
            ELSE <<>>)

\* the table after store_conversation(user_id, conversation_id, messages):
\* conversation_id is the primary key; n is a history field, the number of
\* the store_conversation call that wrote the row
store_conversation(rows, u, conversation_id, messages, t, n, ok) ==
    IF ~ok THEN rows
    ELSE {r \in rows : r.conversation_id # conversation_id}
         \cup {[conversation_id |-> conversation_id, user_id |-> u,
                messages |-> messages,
                summary |-> _create_conversation_summary(messages),
                created_at |-> t, n |-> n]}

----------------------------------------------------------------------------
(* MainPokeAgent.process_user_message (main_poke_agent.py 46-213) *)

execution_keywords ==
    <<"send email", "compose email", "email to",
      "schedule", "calendar", "meeting", "event",
      "search", "find", "look for",
      "remind me", "set reminder", "automation",
      "create", "delete", "update", "edit">>

\* _should_delegate_to_execution_agent(message)
_should_delegate_to_execution_agent(message) ==
    \E i \in DOMAIN execution_keywords :
        LowerIn(execution_keywords[i], message)

\* _format_draft_confirmation: a draft of another type falls off the end of
\* the function, which returns None
_format_draft_confirmation(execution_result) ==
    LET draft == Get(execution_result, "draft", EmptyDict)
        draft_type == Get(draft, "type", "email")
    IN  IF draft_type = "email"
        THEN <<"Email Draft", "To: ", Get(draft, "to", ""),
               "Subject: ", Get(draft, "subject", ""),
               "Message: ", Get(draft, "body", ""),
               "Does this look good to send?">>
        ELSE IF draft_type = "calendar"
        THEN <<"Calendar Event Draft", "Title: ", Get(draft, "title", ""),
               "Date: ">> \o Get(draft, "date", Str_empty)
             \o <<"Time: ">> \o Get(draft, "time", Str_empty)
             \o <<"Description: ", Get(draft, "description", ""),
                  "Does this look good to create?">>
        ELSE None

\* str(i) for the line numbers of the result list
Numeral(i) == <<"1", "2", "3", "4", "5">>[i]

\* _format_information_response(execution_result)
_format_information_response(execution_result) ==
    LET results == Get(execution_result, "results", <<>>)
        shown == Take(results, 5)
    IN  IF results = <<>>
        THEN <<"I couldn't find anything matching your request.">>
        ELSE <<"Here's what I found:">>
             \o Flatten([i \in DOMAIN shown |->
                    <<Numeral(i), ". ",
                      Get(shown[i], "summary", "No summary available")>>])

\* _process_execution_result(execution_result, user_msg)
_process_execution_result(execution_result) ==
    IF Get(execution_result, "needs_confirmation", FALSE)
    THEN _format_draft_confirmation(execution_result)
    ELSE IF Get(execution_result, "task_completed", FALSE)
    THEN _format_completion_message(execution_result)
    ELSE _format_information_response(execution_result)

\* _get_personality_prompt(user_context): the fixed personality text; the
\* preferences and writing style it appends come from columns that are
\* left out
_get_personality_prompt(user_context) == <<"personality">>

\* context_messages of _generate_conversational_response (lines 181-203):
\* the system prompt, then the last 5 entries of conversation_history, which
\* holds UserMessage objects only
context_messages(history, user_context) ==
    LET recent_messages == LastN(history, 5)
    IN  <<[role |-> "system",
           content |-> _get_personality_prompt(user_context)]>>
        \o [i \in DOMAIN recent_messages |->
               [role |-> "user", content |-> recent_messages[i].content]]

\* _generate_conversational_response: openai_client is the synchronous
\* openai.OpenAI client, so the awaited create(...) either raises in the
\* call or returns a completion that cannot be awaited
_generate_conversational_response(api) ==
    IF api = "error" THEN Raise("APIError") ELSE Raise("TypeError")

----------------------------------------------------------------------------
(* Initial state: a fresh process over an empty database *)

\* the outcomes of a sqlite call: it raises only when the store is faulty
Outcomes == IF faulty THEN BOOLEAN ELSE {TRUE}

InitState ==
    /\ pending_confirmations = {}
    /\ outbox = <<>>
    /\ events_cache = [u \in Users |-> <<>>]
    /\ now = 0
    /\ response = None
    /\ staged = [u \in Users |-> None]
    /\ nstaged = 0
    /\ dead = {}
    /\ approved = {}
    /\ log = <<>>
    /\ last = [op |-> "init"]
    /\ conversation_history = <<>>
    /\ user_memory = {}
    /\ conversations = {}
    /\ triggers = <<>>
    /\ calls = <<>>
    /\ auth_tokens = <<>>
    /\ accepts = <<>>
    /\ requests = 0
    /\ inflight = [p \in Threads |-> Idle]

Init == InitState /\ faulty = FALSE

InitFault == InitState /\ faulty = TRUE

----------------------------------------------------------------------------
(* Operations.  Every datetime.now() whose value is kept returns a value     *)
(* later than all earlier ones: now + 1, then now + 2.                       *)

\* MemoryManager.set_pending_confirmation(user_id, confirmation_data)
SetPendingConfirmation(u, d) ==
    \E ok \in Outcomes :
        LET old == ReadSid(pending_confirmations, u, TRUE)
            sid == nstaged + 1
        IN  /\ nstaged < MaxStagings
            /\ pending_confirmations' =
                   set_pending_confirmation(pending_confirmations, u, d,
                                            now + 1, sid, ok)
            /\ now' = IF ok THEN now + 1 ELSE now
            /\ response' = IF ok THEN <<"True">> ELSE <<"False">>
            /\ nstaged' = IF ok THEN sid ELSE nstaged
            /\ staged' =
                 IF ok
                 THEN [staged EXCEPT ![u] =
                         Some([draft |-> d, sid |-> sid,
                               replaced |-> get_pending_confirmation(
                                              pending_confirmations, u, TRUE)])]
                 ELSE staged
            /\ dead' = IF ok /\ old # 0 THEN dead \cup {old} ELSE dead
            /\ last' = [op |-> "set", user |-> u, arg |-> d, ok |-> ok]
            /\ UNCHANGED <<outbox, events_cache, approved, log, faulty>>
            /\ UNCHANGED <<turnvars, webvars>>

\* the clock reads execute_confirmed_action(d, u) keeps: send_email reads the
\* clock for the timestamp and for the message id, create_event for the
\* event id once the date and time are parsed
ClockReads(d) ==
    IF BackendOp(d) = "send_email" THEN 2
    ELSE IF /\ BackendOp(d) = "create_event"
            /\ EventStart(CallArgs(d).date, CallArgs(d).time) # None
         THEN 1
         ELSE 0

\* the backend effects of execute_confirmed_action(d, u)
ExecuteEffects(d, u, sid) ==
    LET a == CallArgs(d)
        op == BackendOp(d)
        t == now + ClockReads(d)
        ret == BackendReturn(d, u, t)
    IN  /\ outbox' =
             IF op = "send_email"
             THEN Append(outbox,
                         email_data(a.to, a.subject, a.body, u, now + 1))
             ELSE outbox
        /\ events_cache' =
             IF op = "create_event"
             THEN create_event_cache(events_cache, a.title, a.date, a.time,
                                     a.description, u, t)
             ELSE events_cache
        /\ log' =
             IF op = "" THEN log
             ELSE Append(log,
                    [op |-> op, user |-> u, args |-> a, sid |-> sid,
                     success |-> ret.success,
                     id |-> IF op = "send_email"
                            THEN Get(ret, "message_id", None)
                            ELSE Get(ret, "event_id", None)])
        /\ now' = t

\* mutant: the reaction is looked at before the pending confirmation
ReactionBranchUnguarded(pending_confirmation, reaction) ==
    IF is_negative(reaction) THEN "cancel"
    ELSE IF ~Truthy(pending_confirmation) THEN "nothing_pending"
    ELSE IF is_positive(reaction) THEN "execute"
    ELSE "unclear"

\* the branch handle_emoji_reaction takes (lines 270-292)
ReactionBranch(pending_confirmation, reaction) ==
    IF ~Truthy(pending_confirmation) THEN "nothing_pending"
    ELSE IF is_positive(reaction) THEN "execute"
    ELSE IF is_negative(reaction) THEN "cancel"
    ELSE "unclear"

\* MainPokeAgent.handle_emoji_reaction(user_id, reaction), lines 262-292
HandleEmojiReaction(u, reaction) ==
    \E okGet \in Outcomes, okClear \in Outcomes :
        LET pending_confirmation ==
                get_pending_confirmation(pending_confirmations, u, okGet)
            sid == ReadSid(pending_confirmations, u, okGet)
            d == pending_confirmation[1]
            res == execute_confirmed_action(d, u, now + ClockReads(d))
            branch == ReactionBranch(pending_confirmation, reaction)
        IN  /\ last' = [op |-> "react", user |-> u, arg |-> reaction,
                        read |-> pending_confirmation, sid |-> sid,
                        result |-> IF branch = "execute" THEN Some(res)
                                   ELSE None]
            /\ UNCHANGED <<staged, nstaged, faulty>>
            /\ UNCHANGED <<turnvars, webvars>>
            /\ CASE branch = "nothing_pending" ->
                    /\ response' = NothingPending
                    /\ UNCHANGED <<pending_confirmations, outbox,
                                   events_cache, now, dead, approved, log>>
                 [] branch = "execute" ->
                    /\ BackendOp(d) # "" => Len(log) < MaxCalls
                    /\ ExecuteEffects(d, u, sid)
                    /\ pending_confirmations' =
                         clear_pending_confirmation(pending_confirmations, u,
                                                    okClear)
                    /\ response' = _format_completion_message(res)
                    /\ approved' = approved \cup {sid}
                    /\ UNCHANGED dead
                 [] branch = "cancel" ->
                    /\ pending_confirmations' =
                         clear_pending_confirmation(pending_confirmations, u,
                                                    okClear)
                    /\ response' = WontProceed
                    /\ dead' = dead \cup {sid}
                    /\ UNCHANGED <<outbox, events_cache, now, approved, log>>
                 [] OTHER ->
                    /\ response' = NotSure
                    /\ UNCHANGED <<pending_confirmations, outbox,
                                   events_cache, now, dead, approved, log>>

Next ==
    \/ \E u \in Users : \E d \in Drafts(u) : SetPendingConfirmation(u, d)
    \/ \E u \in Users, reaction \in Reactions : HandleEmojiReaction(u, reaction)

Spec == Init /\ [][Next]_vars

\* the same program over a store whose sqlite calls may raise
SpecFault == InitFault /\ [][Next]_vars

----------------------------------------------------------------------------
(* Reactions served at the same time.  Nothing in MainPokeAgent or          *)
(* MemoryManager holds a lock, and a request runs on a thread and an event  *)
(* loop of its own (web_app.py 88-104), so two handle_emoji_reaction calls  *)
(* interleave between their three awaited calls: get_pending_confirmation   *)
(* (line 268), execute_confirmed_action (282-284) and                       *)
(* clear_pending_confirmation (285, 289).                                   *)

\* line 268 and the branch of lines 270-292: a call that finds nothing
\* pending or does not know the glyph returns at once
ReactBegin(p, u, reaction) ==
    /\ inflight[p] = Idle
    /\ \E okGet \in Outcomes :
        LET pending_confirmation ==
                get_pending_confirmation(pending_confirmations, u, okGet)
            sid == ReadSid(pending_confirmations, u, okGet)
            branch == ReactionBranch(pending_confirmation, reaction)
        IN  /\ last' = [op |-> "react_begin", thread |-> p, user |-> u,
                        arg |-> reaction, read |-> pending_confirmation,
                        sid |-> sid]
            /\ inflight' =
                 IF branch \in {"execute", "cancel"}
                 THEN [inflight EXCEPT
                         ![p] = [pc |-> branch, user |-> u,
                                 read |-> pending_confirmation, sid |-> sid]]
                 ELSE inflight
            /\ response' =
                 CASE branch = "nothing_pending" -> NothingPending
                   [] branch = "unclear" -> NotSure
                   [] OTHER -> response
    /\ UNCHANGED <<corevars, now, turnvars, auth_tokens, accepts, requests>>

\* lines 282-284: the draft read at line 268 is executed
ReactExecute(p) ==
    /\ inflight[p].pc = "execute"
    /\ \E c \in {inflight[p]} :
        LET d == c.read[1]
            res == execute_confirmed_action(d, c.user, now + ClockReads(d))
        IN  /\ BackendOp(d) # "" => Len(log) < MaxCalls
            /\ ExecuteEffects(d, c.user, c.sid)
            /\ approved' = approved \cup {c.sid}
            /\ inflight' =
                 [inflight EXCEPT ![p] = [pc |-> "clear", user |-> c.user,
                                          read |-> c.read, sid |-> c.sid,
                                          result |-> res]]
            /\ last' = [op |-> "react_execute", thread |-> p,
                        user |-> c.user, sid |-> c.sid, result |-> res]
    /\ UNCHANGED <<pending_confirmations, response, staged, nstaged, dead,
                   faulty, turnvars, auth_tokens, accepts, requests>>

\* lines 285-286 and 289-290: the user's row is deleted and the call returns
ReactFinish(p) ==
    /\ inflight[p].pc \in {"clear", "cancel"}
    /\ \E okClear \in Outcomes, c \in {inflight[p]} :
        /\ pending_confirmations' =
              clear_pending_confirmation(pending_confirmations, c.user,
                                         okClear)
        /\ response' = IF c.pc = "clear"
                       THEN _format_completion_message(c.result)
                       ELSE WontProceed
        /\ dead' = IF c.pc = "cancel" THEN dead \cup {c.sid} ELSE dead
        /\ inflight' = [inflight EXCEPT ![p] = Idle]
        /\ last' = [op |-> "react_finish", thread |-> p, user |-> c.user,
                    sid |-> c.sid, cleared |-> okClear]
    /\ UNCHANGED <<outbox, events_cache, now, staged, nstaged, approved, log,
                   faulty, turnvars, auth_tokens, accepts, requests>>

\* stagings and reactions of the users, two reactions at a time
NextConcurrent ==
    \/ \E u \in Users : \E d \in PendingDrafts(u) : SetPendingConfirmation(u, d)
    \/ \E p \in Threads, u \in Users, reaction \in Reactions :
          ReactBegin(p, u, reaction)
    \/ \E p \in Threads : ReactExecute(p)
    \/ \E p \in Threads : ReactFinish(p)

SpecConcurrent == Init /\ [][NextConcurrent]_vars

----------------------------------------------------------------------------
(* Turns: process_user_message and the method it formats results with *)

\* the texts users send
Messages == {"Find the meeting", "hello"}

\* the uuid4 values _handle_authentication_task can draw
Tokens == {"t1", "t2"}

\* the parameters the classifier fills in
Parameters ==
    [recipient |-> "john@example.com", subject |-> "Hi", body |-> "...",
     title |-> "Standup", date |-> Str_2024_01_15, time |-> Str_14_00,
     query |-> "Meeting", message |-> "call mom", condition |-> "from boss",
     action |-> "forward"]

\* the descriptors the classifier answers with
Descriptors ==
    {[task_type |-> "email", action |-> a, parameters |-> Parameters] :
        a \in {"send", "search", "archive"}}
    \cup {[task_type |-> "calendar", action |-> a, parameters |-> Parameters] :
        a \in {"create", "search", "archive"}}
    \cup {[task_type |-> "search", action |-> "search",
           parameters |-> [query |-> q]] : q \in {"", "Meeting"}}
    \cup {[task_type |-> "trigger", action |-> a, parameters |-> Parameters] :
        a \in {"remind", "automation", "archive"}}
    \cup {[task_type |-> "integration", action |-> a,
           parameters |-> [integration |-> i, query |-> "Meeting"]] :
        a \in {"search", "archive"}, i \in {"notion", "vercel"}}
    \cup {[task_type |-> "authentication", action |-> "authenticate",
           parameters |-> [service |-> s]] :
        s \in {"gmail", "calendar", "slack"}}
    \cup {[task_type |-> tt, action |-> "unknown", parameters |-> EmptyDict] :
        tt \in {"other", "weather"}}

\* what the classifier call can do: raise, or answer with a text that is
\* not JSON, with JSON that is not an object, with an object without
\* task_type, or with a descriptor
ClassifierReplies ==
    {[api |-> "error"]}
    \cup {[api |-> "ok", content |-> [json |-> "invalid"]]}
    \cup {[api |-> "ok", content |-> [json |-> "valid", value |-> v]] :
            v \in {JsonOther, JsonObject([action |-> "send"])}
                  \cup {JsonObject(d) : d \in Descriptors}}

\* the exceptions that can escape the four search coroutines
GatherOutcomes == [1..4 -> {"", "Exception"}]
NoException == [i \in 1..4 |-> ""]
AtMostOneException ==
    {outs \in GatherOutcomes :
        Cardinality({i \in 1..4 : outs[i] # ""}) <= 1}

\* the draws a reply leaves open: a token only where a link is built, the
\* outcomes of the fan-out only where it runs
TaskTypeOf(reply) ==
    IF reply.api = "ok" /\ reply.content.json = "valid"
       /\ reply.content.value.isdict
    THEN Get(reply.content.value.d, "task_type", "") ELSE ""

TokenDraws(reply) ==
    IF TaskTypeOf(reply) \in {"email", "calendar", "authentication"}
    THEN Tokens ELSE {"t1"}

GatherDraws(reply) ==
    IF TaskTypeOf(reply) = "search" THEN AtMostOneException
    ELSE {NoException}

\* a delegated turn asks the classifier; any other turn asks for a chat
\* completion, of which only the call's outcome matters
ReplyDraws(needs_execution) ==
    IF needs_execution THEN ClassifierReplies
    ELSE {[api |-> "error"], [api |-> "ok", content |-> [json |-> "invalid"]]}

\* process_user_message(user_id, message), lines 46-91.  The clock is read
\* for user_msg.timestamp, by the handler, and by update_user_memory.
Turn(u, message, okCtx, okRead, okWrite, reply, auth_token, outs) ==
    /\ Len(conversation_history) < MaxTurns
    /\ \E needs_execution \in {_should_delegate_to_execution_agent(message)} :
        LET user_msg == [content |-> message, timestamp |-> now + 1,
                         user_id |-> u]
            user_context == get_user_context(user_memory, u, okCtx)
        IN  \E out \in {IF needs_execution
                        THEN process_task(reply, u, auth_token, outs, now + 1)
                        ELSE Pure(_generate_conversational_response(reply.api),
                                  <<>>)} :
              LET raised == out.result.raised
                  t == now + 1 + out.reads
              IN  /\ conversation_history' =
                        Append(conversation_history, user_msg)
                  /\ calls' = out.calls
                  /\ triggers' = out.triggers
                  /\ events_cache' = out.events_cache
                  /\ last' = [op |-> "message", user |-> u,
                              message |-> message,
                              delegated |-> needs_execution, reply |-> reply,
                              outs |-> outs, result |-> out.result,
                              okCtx |-> okCtx, context |-> user_context,
                              context_messages |->
                                  IF needs_execution THEN None
                                  ELSE Some(context_messages(
                                                conversation_history',
                                                user_context)),
                              okWrite |-> okWrite,
                              stored |->
                                  IF raised # "" THEN None
                                  ELSE Some(update_user_memory_returns(
                                                okRead, okWrite))]
                  /\ IF raised # ""
                     THEN /\ response' = None
                          /\ user_memory' = user_memory
                          /\ now' = t
                     ELSE /\ response' =
                               _process_execution_result(out.result.value)
                          /\ user_memory' =
                               update_user_memory(
                                   user_memory, u,
                                   [user_message |-> message,
                                    agent_response |-> response',
                                    timestamp |-> t + 1],
                                   t + 2, okRead, okWrite)
                          /\ now' = IF okWrite THEN t + 2 ELSE t + 1
                  /\ UNCHANGED <<pending_confirmations, outbox, staged,
                                 nstaged, dead, approved, log, faulty,
                                 conversations, webvars>>

\* a turn, with every outcome its calls can have
ProcessUserMessage(u, message) ==
    /\ Len(conversation_history) < MaxTurns
    /\ \E okCtx \in Outcomes, okRead \in Outcomes, okWrite \in Outcomes,
          needs_execution \in {_should_delegate_to_execution_agent(message)} :
      \E reply \in ReplyDraws(needs_execution) :
      \E auth_token \in TokenDraws(reply), outs \in GatherDraws(reply) :
        Turn(u, message, okCtx, okRead, okWrite, reply, auth_token, outs)

\* the classifier's answers that tell the turns of a conversation apart: the
\* call raising, a text that is not JSON, a search, a draft and a reminder
FewReplies(needs_execution) ==
    IF needs_execution
    THEN {[api |-> "error"], [api |-> "ok", content |-> [json |-> "invalid"]]}
         \cup {[api |-> "ok",
                content |-> [json |-> "valid", value |-> JsonObject(d)]] :
                 d \in {[task_type |-> "search", action |-> "search",
                         parameters |-> [query |-> "Meeting"]],
                        [task_type |-> "email", action |-> "send",
                         parameters |-> Parameters],
                        [task_type |-> "trigger", action |-> "remind",
                         parameters |-> Parameters]}}
    ELSE {[api |-> "error"]}

\* a turn over a store whose calls may raise
ProcessUserMessageFault(u, message) ==
    /\ Len(conversation_history) < MaxTurns
    /\ \E okCtx \in Outcomes, okRead \in Outcomes, okWrite \in Outcomes,
          needs_execution \in {_should_delegate_to_execution_agent(message)} :
      \E reply \in FewReplies(needs_execution) :
        Turn(u, message, okCtx, okRead, okWrite, reply, "t1", NoException)

\* the classifier answering with a search
SearchReply ==
    [api |-> "ok",
     content |-> [json |-> "valid",
                  value |-> JsonObject([task_type |-> "search",
                                        action |-> "search",
                                        parameters |-> [query |-> "Meeting"]])]]

\* a turn that delegates a search and writes the user's memory, the store
\* working
ProcessUserMessageSearch(u) ==
    /\ Len(conversation_history) < MaxTurns
    /\ Turn(u, "Find the meeting", TRUE, TRUE, TRUE, SearchReply, "t1",
            NoException)

\* the conversations store_conversation is given
ConversationIds == {"conv_1"}
MessageLists ==
    {<<[role |-> "user", content |-> "hello"],
       [role |-> "assistant", content |-> "hi"]>>}

\* the number of store_conversation calls that wrote a row
StoreCount ==
    IF conversations = {} THEN 0
    ELSE CHOOSE n \in {r.n : r \in conversations} :
            \A r \in conversations : r.n <= n

\* MemoryManager.store_conversation(user_id, conversation_id, messages)
StoreConversation(u, conversation_id, messages) ==
    /\ StoreCount < MaxConversations
    /\ \E ok \in Outcomes :
        /\ conversations' =
              store_conversation(conversations, u, conversation_id, messages,
                                 now + 1, StoreCount + 1, ok)
        /\ now' = IF ok THEN now + 1 ELSE now
        /\ response' = IF ok THEN <<"True">> ELSE <<"False">>
        /\ last' = [op |-> "store_conversation", user |-> u,
                    conversation_id |-> conversation_id, ok |-> ok]
    /\ UNCHANGED <<corevars, conversation_history, user_memory, triggers,
                   calls, webvars>>

\* the results the handlers' return statements build for user u
HandlerResults(u) ==
    {[needs_confirmation |-> TRUE, draft |-> d,
      task_type |-> IF d.type = "email" THEN "email_compose"
                    ELSE "calendar_create"] :
        d \in {x \in Drafts(u) : x.type \in {"email", "calendar"}}}
    \cup {[success |-> TRUE, task_type |-> "email_search",
           results |-> search_emails(u, "Meeting")],
          [success |-> FALSE, error |-> <<"Unknown email action: ", "archive">>,
           task_type |-> "email"]}

\* _process_execution_result(execution_result, user_msg), lines 109-121,
\* as process_user_message calls it at line 76 for a result of user u
ProcessExecutionResult(u, execution_result) ==
    /\ response' = _process_execution_result(execution_result)
    /\ last' = [op |-> "result", user |-> u, result |-> execution_result]
    /\ UNCHANGED <<corevars, now, turnvars, webvars>>

NextTurn ==
    \E u \in Users, message \in Messages : ProcessUserMessage(u, message)

\* the conversation controller taking turns, the store working
SpecTurn == Init /\ [][NextTurn]_vars

\* the user whose drafts are staged
Requester == "u1"

\* the users at work while a draft is pending
Active == IF pending_confirmations = {} THEN {} ELSE Users

\* the confirmation protocol of one user, with the turns any user takes and
\* the conversations stored for any user while a draft is pending
NextPending ==
    \/ \E d \in PendingDrafts(Requester) :
          SetPendingConfirmation(Requester, d)
    \/ \E reaction \in Reactions : HandleEmojiReaction(Requester, reaction)
    \/ \E u \in Active : ProcessUserMessageSearch(u)
    \/ \E u \in Active, c \in ConversationIds, m \in MessageLists :
          StoreConversation(u, c, m)

SpecPending == Init /\ [][NextPending]_vars

NextTurnFault ==
    \E u \in Users, message \in Messages : ProcessUserMessageFault(u, message)

\* turns over a store whose sqlite calls may raise
SpecTurnFault == InitFault /\ [][NextTurnFault]_vars

NextDraft ==
    \/ Next
    \/ \E u \in Users : \E r \in HandlerResults(u) :
          ProcessExecutionResult(u, r)

\* the confirmation protocol together with the formatting of handler results
SpecDraft == Init /\ [][NextDraft]_vars

----------------------------------------------------------------------------
(* The generic search handler over a calendar that has events *)

\* the title, date, time and description create_event is called with
EventInputs ==
    { [title |-> "Standup", date |-> Str_2024_01_15, time |-> Str_14_00,
       description |-> "daily sync"],
      [title |-> "Meeting Tomorrow", date |-> Str_2024_01_15,
       time |-> Str_14_00, description |-> ""],
      [title |-> "New Event", date |-> Str_empty, time |-> Str_empty,
       description |-> ""] }

\* the queries the classifier extracts
Queries == {"", "Meeting", "sync"}

\* the events of all users
EventCount(cache) ==
    LET RECURSIVE Sum(_)
        Sum(us) == IF us = {} THEN 0
                   ELSE LET u == CHOOSE x \in us : TRUE
                        IN  Len(cache[u]) + Sum(us \ {u})
    IN  Sum(DOMAIN cache)

\* CalendarService.create_event(title, date, time, description, user_id)
CreateEvent(u, e) ==
    /\ EventCount(events_cache) < MaxEvents
    /\ \E start \in {EventStart(e.date, e.time)} :
         \E t \in {IF start = None THEN now ELSE now + 1} :
           /\ events_cache' = create_event_cache(events_cache, e.title, e.date,
                                                 e.time, e.description, u, t)
           /\ response' = create_event(e.title, e.date, e.time,
                                       e.description, u, t)
           /\ now' = t
    /\ last' = [op |-> "create_event", user |-> u, args |-> e]
    /\ UNCHANGED <<pending_confirmations, outbox, staged, nstaged, dead,
                   approved, log, faulty, turnvars, webvars>>

\* ExecutionAgent._handle_search_task(task_analysis, user_id)
HandleSearchTask(u, query, outs) ==
    \E out \in {_handle_search_task(
                   [task_type |-> "search", action |-> "search",
                    parameters |-> [query |-> query]], u, outs)} :
        /\ events_cache' = out.events_cache
        /\ calls' = out.calls
        /\ response' = out.result.value
        /\ last' = [op |-> "search", user |-> u, query |-> query,
                    outs |-> outs, result |-> out.result]
        /\ UNCHANGED <<pending_confirmations, outbox, staged, nstaged, dead,
                       approved, log, faulty, now, conversation_history,
                       user_memory, conversations, triggers, webvars>>

NextSearch ==
    \/ \E u \in Users, e \in EventInputs : CreateEvent(u, e)
    \/ \E u \in Users, query \in Queries, outs \in AtMostOneException :
          HandleSearchTask(u, query, outs)

\* the search handler working on calendars that fill up
SpecSearch == Init /\ [][NextSearch]_vars

\* CalendarService.search_events(user_id, query), limit left at its default
SearchEvents(u, query) ==
    /\ response' = search_events(events_cache, u, query)
    /\ last' = [op |-> "search_events", user |-> u, query |-> query]
    /\ UNCHANGED <<corevars, now, turnvars, webvars>>

NextCalendar ==
    \/ \E u \in Users, e \in EventInputs : CreateEvent(u, e)
    \/ \E u \in Users, query \in Queries : SearchEvents(u, query)

\* the calendar backend called directly: events are created and searched
SpecCalendar == Init /\ [][NextCalendar]_vars

----------------------------------------------------------------------------
(* The memory store called directly (memory_manager.py 125-171) *)

\* the interactions update_user_memory is given
Interactions ==
    {[user_message |-> m, agent_response |-> <<"Got it: ", m>>] :
        m \in {"hello", "call mom"}}

\* the update_user_memory calls made so far
UpdateCount == Cardinality({i \in DOMAIN log :
                               log[i].op = "update_user_memory"})

\* MemoryManager.update_user_memory(user_id, interaction)
UpdateUserMemory(u, interaction) ==
    /\ UpdateCount < MaxUpdates
    /\ \E okRead \in Outcomes, okWrite \in Outcomes :
        /\ user_memory' = update_user_memory(user_memory, u, interaction,
                                             now + 1, okRead, okWrite)
        /\ now' = IF okWrite THEN now + 1 ELSE now
        /\ response' = IF update_user_memory_returns(okRead, okWrite)
                       THEN <<"True">> ELSE <<"False">>
        /\ log' = Append(log, [op |-> "update_user_memory", user |-> u,
                               interaction |-> interaction,
                               stored |-> okWrite])
        /\ last' = [op |-> "update_user_memory", user |-> u,
                    interaction |-> interaction]
    /\ UNCHANGED <<pending_confirmations, outbox, events_cache, staged,
                   nstaged, dead, approved, faulty, conversation_history,
                   conversations, triggers, calls, webvars>>

NextMemory ==
    \E u \in Users, interaction \in Interactions :
        UpdateUserMemory(u, interaction)

\* the memory store taking one interaction after another
SpecMemory == Init /\ [][NextMemory]_vars

----------------------------------------------------------------------------
(* The trigger manager called directly (trigger_manager.py 31-145) *)

\* the trigger ids delete_trigger is called with: those in the store and
\* one that was never issued
TriggerIds(store) ==
    {store[i].id : i \in DOMAIN store} \cup {<<"reminder_", 0>>}

\* the type filters check_triggers is called with
TypeFilters == {None, Some("cron"), Some("email"), Some("reminder")}

\* TriggerManager.create_reminder(user_id, message, trigger_time)
CreateReminder(u, message, trigger_time) ==
    /\ Len(log) < MaxTriggers
    /\ triggers' = PutTrigger(triggers,
                      reminder_trigger(u, message, trigger_time, now))
    /\ response' = create_reminder(u, message, trigger_time, now)
    /\ now' = now + 2
    /\ log' = Append(log, [op |-> "create_reminder", user |-> u,
                           id |-> response'.trigger_id])
    /\ last' = [op |-> "create_reminder", user |-> u]
    /\ UNCHANGED <<pending_confirmations, outbox, events_cache, staged,
                   nstaged, dead, approved, faulty, conversation_history,
                   user_memory, conversations, calls, webvars>>

\* TriggerManager.create_email_automation(user_id, condition, action)
CreateEmailAutomation(u, condition, action) ==
    /\ Len(log) < MaxTriggers
    /\ triggers' = PutTrigger(triggers,
                      automation_trigger(u, condition, action, now))
    /\ response' = create_email_automation(u, condition, action, now)
    /\ now' = now + 2
    /\ log' = Append(log, [op |-> "create_email_automation", user |-> u,
                           id |-> response'.trigger_id])
    /\ last' = [op |-> "create_email_automation", user |-> u]
    /\ UNCHANGED <<pending_confirmations, outbox, events_cache, staged,
                   nstaged, dead, approved, faulty, conversation_history,
                   user_memory, conversations, calls, webvars>>

\* TriggerManager.delete_trigger(trigger_id, user_id)
DeleteTrigger(trigger_id, u) ==
    /\ triggers' = delete_trigger_store(triggers, trigger_id, u)
    /\ response' = delete_trigger(triggers, trigger_id, u)
    /\ last' = [op |-> "delete_trigger", user |-> u, trigger_id |-> trigger_id]
    /\ UNCHANGED <<corevars, now, conversation_history, user_memory,
                   conversations, calls, webvars>>

\* TriggerManager.check_triggers(user_id, trigger_type)
CheckTriggers(u, trigger_type) ==
    /\ response' = check_triggers(triggers, u, trigger_type)
    /\ last' = [op |-> "check_triggers", user |-> u,
                trigger_type |-> trigger_type]
    /\ UNCHANGED <<corevars, now, turnvars, webvars>>

\* TriggerManager.get_user_triggers(user_id)
GetUserTriggers(u) ==
    /\ response' = get_user_triggers(triggers, u)
    /\ last' = [op |-> "get_user_triggers", user |-> u]
    /\ UNCHANGED <<corevars, now, turnvars, webvars>>

NextTrigger ==
    \/ \E u \in Users : CreateReminder(u, "call mom", "9am")
    \/ \E u \in Users : CreateEmailAutomation(u, "from boss", "forward")
    \/ \E u \in Users : \E trigger_id \in TriggerIds(triggers) :
          DeleteTrigger(trigger_id, u)
    \/ \E u \in Users, trigger_type \in TypeFilters :
          CheckTriggers(u, trigger_type)
    \/ \E u \in Users : GetUserTriggers(u)

\* the trigger manager serving creations, deletions and reads in any order
SpecTrigger == Init /\ [][NextTrigger]_vars

----------------------------------------------------------------------------
(* Trigger creation over a clock that may repeat a reading                 *)
(* (trigger_manager.py 31-85). datetime.now() is the wall clock: between   *)
(* two readings it has advanced or, on a timer of coarse resolution, it    *)
(* has not.                                                                *)

\* what datetime.now() may give when the reading before it was t
Readings(t) == {t, t + 1}

\* create_reminder whose two readings of the clock are id_reading and
\* created_reading
CreateReminderAt(u, message, trigger_time, id_reading, created_reading) ==
    /\ Len(log) < MaxTriggers
    /\ triggers' =
          PutTrigger(triggers,
              [reminder_trigger(u, message, trigger_time, now)
                  EXCEPT !.id = <<"reminder_", id_reading>>,
                         !.created_at = created_reading])
    /\ response' = [create_reminder(u, message, trigger_time, now)
                       EXCEPT !.trigger_id = <<"reminder_", id_reading>>]
    /\ now' = created_reading
    /\ log' = Append(log, [op |-> "create_reminder", user |-> u,
                           id |-> response'.trigger_id])
    /\ last' = [op |-> "create_reminder", user |-> u]
    /\ UNCHANGED <<pending_confirmations, outbox, events_cache, staged,
                   nstaged, dead, approved, faulty, conversation_history,
                   user_memory, conversations, calls, webvars>>

\* create_email_automation, likewise
CreateEmailAutomationAt(u, condition, action, id_reading, created_reading) ==
    /\ Len(log) < MaxTriggers
    /\ triggers' =
          PutTrigger(triggers,
              [automation_trigger(u, condition, action, now)
                  EXCEPT !.id = <<"automation_", id_reading>>,
                         !.created_at = created_reading])
    /\ response' = [create_email_automation(u, condition, action, now)
                       EXCEPT !.trigger_id = <<"automation_", id_reading>>]
    /\ now' = created_reading
    /\ log' = Append(log, [op |-> "create_email_automation", user |-> u,
                           id |-> response'.trigger_id])
    /\ last' = [op |-> "create_email_automation", user |-> u]
    /\ UNCHANGED <<pending_confirmations, outbox, events_cache, staged,
                   nstaged, dead, approved, faulty, conversation_history,
                   user_memory, conversations, calls, webvars>>

NextClock ==
    \/ \E u \in Users, message \in {"call mom", "pay rent"} :
       \E id_reading \in Readings(now) :
       \E created_reading \in Readings(id_reading) :
          CreateReminderAt(u, message, "9am", id_reading, created_reading)
    \/ \E u \in Users : \E id_reading \in Readings(now) :
       \E created_reading \in Readings(id_reading) :
          CreateEmailAutomationAt(u, "from boss", "forward",
                                  id_reading, created_reading)
    \* TriggerManager.get_user_triggers(user_id)
    \/ \E u \in Users : GetUserTriggers(u)

\* creations and listings over a clock that may repeat a reading
SpecClock == Init /\ [][NextClock]_vars

----------------------------------------------------------------------------
(* Recurring events (calendar_service.py 204-251) *)

\* the series create_recurring_event is asked for
SeriesInputs ==
    [title : {"Standup"},
     start_date : {Str_2024_01_15, Str_2024_02_25, Str_0999_12_30,
                   Str_9999_12_22, Str_9999_12_25, Str_01_15_2024, Str_empty},
     start_time : {Str_14_00, Str_23_30},
     description : {"daily sync"},
     recurrence : {"daily", "weekly", "monthly", "yearly"}]

\* whether strftime pads the year: it matters below the year 1000 only
PadDraws(e) ==
    LET start == _parse_datetime(e.start_date, e.start_time)
    IN  IF start # None /\ start[1].year < 1000 THEN BOOLEAN ELSE {TRUE}

\* the create_recurring_event calls made so far
SeriesCount == Cardinality({i \in DOMAIN log :
                               log[i].op = "create_recurring_event"})

\* CalendarService.create_recurring_event(...)
CreateRecurringEvent(u, e, pads) ==
    /\ SeriesCount < MaxSeries
    /\ \E out \in {create_recurring_event(events_cache, e.title, e.start_date,
                       e.start_time, e.description, e.recurrence, u, now,
                       pads)} :
         /\ events_cache' = out.events_cache
         /\ now' = out.now
         /\ response' = out.result
         /\ log' = Append(log, [op |-> "create_recurring_event", user |-> u,
                                args |-> e, success |-> out.result.success])
                   \o out.issued
         /\ last' = [op |-> "create_recurring_event", user |-> u, args |-> e,
                     pads |-> pads,
                     start |-> _parse_datetime(e.start_date, e.start_time),
                     issued |-> out.issued]
    /\ UNCHANGED <<pending_confirmations, outbox, staged, nstaged, dead,
                   approved, faulty, turnvars, webvars>>

NextRecurring ==
    \E u \in Users, e \in SeriesInputs : \E pads \in PadDraws(e) :
        CreateRecurringEvent(u, e, pads)

\* the calendar backend expanding recurring series
SpecRecurring == Init /\ [][NextRecurring]_vars

\* the event created before a series is asked for
EarlierEvent ==
    [title |-> "Meeting Tomorrow", date |-> Str_2024_01_15,
     time |-> Str_14_00, description |-> ""]

\* series that are accepted and series that are refused: for their pattern,
\* or for a start that does not parse
FewSeriesInputs ==
    [title : {"Standup"},
     start_date : {Str_2024_01_15, Str_01_15_2024, Str_empty},
     start_time : {Str_14_00, Str_empty},
     description : {"daily sync"},
     recurrence : {"daily", "yearly"}]

NextSeries ==
    \/ \E u \in Users : CreateEvent(u, EarlierEvent)
    \/ \E u \in Users, e \in FewSeriesInputs : CreateRecurringEvent(u, e, TRUE)

\* series asked for on calendars that hold events
SpecSeries == Init /\ [][NextSeries]_vars

----------------------------------------------------------------------------
(* The OAuth endpoints of web_app.py (lines 164-360).  A request argument   *)
(* is the tuple of the pieces of its text, "_" being a piece of its own;    *)
(* a missing argument and the empty text are both the empty tuple.          *)

\* str.split(sep, maxsplit)
RECURSIVE split(_, _, _)
split(s, sep, maxsplit) ==
    IF maxsplit = 0 \/ ~\E i \in 1..Len(s) : s[i] = sep THEN <<s>>
    ELSE LET i == CHOOSE k \in 1..Len(s) :
                     s[k] = sep /\ \A j \in 1..(k - 1) : s[j] # sep
         IN  <<SubSeq(s, 1, i - 1)>>
             \o split(SubSeq(s, i + 1, Len(s)), sep, maxsplit - 1)

\* f"{token}_{user_id}_{service}", the state of the Google link (line 195)
OAuthState(token, user_id, service) ==
    token \o <<"_">> \o user_id \o <<"_">> \o service

\* auth_tokens[token] = registration
PutToken(tokens, token, registration) ==
    [k \in DOMAIN tokens \cup {token} |->
        IF k = token THEN registration ELSE tokens[k]]

\* del auth_tokens[token]
DelToken(tokens, token) == [k \in DOMAIN tokens \ {token} |-> tokens[k]]

\* the values of the request arguments
TokenArgs == {<<t>> : t \in Tokens}
UserArgs == {<<u>> : u \in Users}
ServiceArgs == {<<"gmail">>, <<"calendar">>}
StateArgs ==
    {OAuthState(t, u, s) : t \in TokenArgs, u \in UserArgs, s \in ServiceArgs}
    \cup {<<>>, <<"t1">>}

\* what the token endpoint of Google does with the code: it answers 200
\* with or without an access token, answers another status, or the post raises
Exchanges == {"200", "200 no access_token", "400", "raise"}

\* GET /auth-web?token=&user_id=&service=
AuthWeb(token, user_id, service) ==
    /\ requests < MaxRequests
    /\ requests' = requests + 1
    /\ IF token = <<>> \/ user_id = <<>>
       THEN /\ response' = <<"400", "Missing token or user_id">>
            /\ UNCHANGED <<auth_tokens, now>>
       ELSE /\ auth_tokens' = PutToken(auth_tokens, token,
                                 [user_id |-> user_id, service |-> service,
                                  timestamp |-> now + 1, used |-> FALSE])
            /\ now' = now + 1
            /\ response' = <<"Poke Authentication", "state=">>
                              \o OAuthState(token, user_id, service)
    /\ last' = [op |-> "auth_web", token |-> token, user_id |-> user_id,
                service |-> service]
    /\ UNCHANGED <<corevars, turnvars, accepts, inflight>>

\* the requests /auth-web is sent: service defaults to gmail
AuthWebDraws ==
    {[token |-> t, user_id |-> u, service |-> s] :
        t \in TokenArgs, u \in UserArgs, s \in ServiceArgs}
    \cup {[token |-> <<>>, user_id |-> <<"u1">>, service |-> <<"gmail">>],
          [token |-> <<"t1">>, user_id |-> <<>>, service |-> <<"gmail">>]}

\* how far /auth-callback gets with a request
CallbackStage(tokens, code, state, error) ==
    IF error # <<>> THEN "error"
    ELSE IF code = <<>> THEN "no code"
    ELSE LET parts == split(state, "_", 2)
         IN  IF Len(parts) # 3 THEN "bad state"
             ELSE IF parts[1] \notin DOMAIN tokens THEN "unknown token"
             ELSE IF tokens[parts[1]].used THEN "already used"
             ELSE "accepted"

\* GET /auth-callback?code=&state=&error=
AuthCallback(code, state, error, exchange) ==
    /\ requests < MaxRequests
    /\ requests' = requests + 1
    /\ \E stage \in {CallbackStage(auth_tokens, code, state, error)},
          parts \in {split(state, "_", 2)} :
         /\ last' = [op |-> "auth_callback", code |-> code, state |-> state,
                     error |-> error, exchange |-> exchange, stage |-> stage,
                     parts |-> IF stage \in {"error", "no code"} THEN None
                               ELSE Some(parts)]
         /\ IF stage = "accepted"
            THEN /\ accepts' = Append(accepts,
                       [token |-> parts[1], user_id |-> parts[2],
                        service |-> parts[3],
                        registered |-> auth_tokens[parts[1]]])
                 /\ auth_tokens' =
                       IF exchange = "200" THEN DelToken(auth_tokens, parts[1])
                       ELSE [auth_tokens EXCEPT ![parts[1]].used = TRUE]
                 /\ response' =
                       CASE exchange = "200" ->
                              <<"Authentication Successful">> \o parts[3]
                         [] exchange = "400" ->
                              <<"Authentication Failed",
                                "Failed to exchange authorization code for tokens.">>
                         [] exchange = "200 no access_token" ->
                              <<"Authentication Error", "TypeError">>
                         [] OTHER -> <<"Authentication Error", "RequestException">>
            ELSE /\ UNCHANGED <<auth_tokens, accepts>>
                 /\ response' =
                       CASE stage = "error" ->
                              <<"Authentication Failed", "Error: ">> \o error
                         [] stage = "no code" -> <<"500", "TypeError">>
                         [] stage = "bad state" ->
                              <<"Authentication Failed",
                                "Invalid state parameter format.">>
                         [] stage = "unknown token" ->
                              <<"Authentication Token Mismatch">>
                         [] OTHER -> <<"Authentication Token Already Used">>
    /\ UNCHANGED <<corevars, turnvars, now, inflight>>

\* the requests /auth-callback is sent, and what the exchange then does
AuthCallbackDraws ==
    {[code |-> <<"c">>, state |-> s, error |-> <<>>] : s \in StateArgs}
    \cup {[code |-> <<>>, state |-> OAuthState(<<"t1">>, <<"u1">>, <<"gmail">>),
           error |-> <<>>],
          [code |-> <<>>, state |-> <<>>, error |-> <<"access_denied">>]}

ExchangeDraws(stage) == IF stage = "accepted" THEN Exchanges ELSE {"none"}

NextAuth ==
    \/ \E r \in AuthWebDraws : AuthWeb(r.token, r.user_id, r.service)
    \/ \E r \in AuthCallbackDraws :
         \E exchange \in ExchangeDraws(
               CallbackStage(auth_tokens, r.code, r.state, r.error)) :
            AuthCallback(r.code, r.state, r.error, exchange)

\* the two OAuth endpoints serving requests in any order
SpecAuth == Init /\ [][NextAuth]_vars

\* the requests /auth-web is sent when a user id may hold the separator of
\* the state: "user_1" next to "u1"
StateWebDraws ==
    [token : TokenArgs,
     user_id : {<<"u1">>, <<"user", "_", "1">>},
     service : ServiceArgs]

\* the states of the links /auth-web has issued for the registered tokens;
\* Google hands the state back to /auth-callback as it got it
IssuedStates(tokens) ==
    {OAuthState(t, tokens[t].user_id, tokens[t].service) : t \in DOMAIN tokens}

NextState ==
    \/ \E r \in StateWebDraws : AuthWeb(r.token, r.user_id, r.service)
    \/ \E state \in IssuedStates(auth_tokens) :
         \E exchange \in ExchangeDraws(
               CallbackStage(auth_tokens, <<"c">>, state, <<>>)) :
            AuthCallback(<<"c">>, state, <<>>, exchange)

\* links are issued and each callback carries the state of an issued link
SpecState == Init /\ [][NextState]_vars

----------------------------------------------------------------------------
(* Properties *)

\* what get_pending_confirmation returns for u on a working store
PendingIn(rows, u) == get_pending_confirmation(rows, u, TRUE)
Pending(u) == PendingIn(pending_confirmations, u)

Approves(reaction) == InList(positive_emojis, reaction)
Rejects(reaction) == InList(negative_emojis, reaction)

\* the draft user u staged last, and the number of that staging
StagedDraft(u) == staged[u][1].draft
StagedSid(u) == staged[u][1].sid

\* C1: single-pending invariant. The table holds at most one pending
\* confirmation per user; what is retrievable for a user is the draft of the
\* user's most recent set_pending_confirmation and no earlier one; and it is
\* retrievable as long as no reaction has resolved it.
C1_SinglePending ==
    \A u \in Users :
        /\ Cardinality(SelectWhere(pending_confirmations, u)) <= 1
        /\ Pending(u) # None =>
              staged[u] # None /\ Pending(u) = Some(StagedDraft(u))
        /\ (staged[u] # None /\ StagedSid(u) \notin (dead \cup approved)) =>
              Pending(u) = Some(StagedDraft(u))

\* two different drafts were set in a row for one user, the second is pending
C1_Witness ==
    \E u \in Users :
        /\ last.op = "set" /\ last.user = u
        /\ staged[u] # None
        /\ staged[u][1].replaced # None
        /\ staged[u][1].replaced[1] # StagedDraft(u)
        /\ Pending(u) = Some(StagedDraft(u))

\* C2: exactly-once execution. No staging is the subject of two backend
\* create calls; an executed approve leaves nothing pending for its user; and
\* an approve that finds nothing pending makes no backend call and answers
\* "nothing pending".
C2_ExactlyOnce ==
    [][/\ \A i, j \in DOMAIN log' : log'[i].sid = log'[j].sid => i = j
       /\ Len(log') <= Len(log) + 1
       /\ (last'.op = "react" /\ Approves(last'.arg)) =>
            /\ PendingIn(pending_confirmations', last'.user) = None
            /\ Pending(last'.user) = None =>
                 /\ log' = log
                 /\ outbox' = outbox
                 /\ events_cache' = events_cache
                 /\ response' = NothingPending]_vars

\* a second approve came after the approve that executed the user's draft
C2_Witness ==
    /\ last.op = "react" /\ Approves(last.arg)
    /\ last.read = None
    /\ response = NothingPending
    /\ staged[last.user] # None
    /\ StagedSid(last.user) \in approved
    /\ \E i \in DOMAIN log : log[i].sid = StagedSid(last.user)

\* C3: reject is side-effect-free. A reaction with a reject glyph makes no
\* backend create call in any state, and when a confirmation is pending it
\* is cleared and the cancellation is acknowledged.
C3_RejectNoSideEffect ==
    [][(last'.op = "react" /\ Rejects(last'.arg)) =>
          /\ log' = log
          /\ outbox' = outbox
          /\ events_cache' = events_cache
          /\ Pending(last'.user) # None =>
               /\ PendingIn(pending_confirmations', last'.user) = None
               /\ response' = WontProceed]_vars

\* a pending draft was rejected
C3_Witness ==
    /\ last.op = "react" /\ Rejects(last.arg)
    /\ last.read # None
    /\ response = WontProceed
    /\ Pending(last.user) = None
    /\ last.sid \in dead

\* C4: a rejected or superseded draft never fires. A backend create call is
\* never made for a staging that was rejected or replaced before the call.
C4_DeadNeverFires ==
    [][Len(log') > Len(log) => log'[Len(log')].sid \notin dead]_vars

\* a draft was executed for a user after an earlier staging had died
C4_Witness ==
    /\ last.op = "react" /\ Approves(last.arg)
    /\ last.read # None
    /\ log # <<>>
    /\ log[Len(log)].sid = last.sid
    /\ \E x \in dead : x < last.sid

\* C5: ordering. Every backend create call is made for the latest staging of
\* the reacting user, a staging that exists, and carries that draft's fields.
C5_LatestDraft ==
    [][Len(log') > Len(log) =>
          LET e == log'[Len(log')]
          IN  /\ staged[e.user] # None
              /\ e.sid = StagedSid(e.user)
              /\ e.sid <= nstaged
              /\ e.op = BackendOp(StagedDraft(e.user))
              /\ \A k \in DOMAIN e.args :
                    e.args[k] = StagedDraft(e.user)[k]]_vars

\* d1 then d2 were set for a user and the approve executed d2
C5_Witness ==
    /\ last.op = "react" /\ Approves(last.arg)
    /\ staged[last.user] # None
    /\ staged[last.user][1].replaced # None
    /\ staged[last.user][1].replaced[1] # StagedDraft(last.user)
    /\ log # <<>>
    /\ log[Len(log)].sid = StagedSid(last.user)
    /\ last.read = Some(StagedDraft(last.user))

\* C6: scenario A. Approving a staged email draft makes exactly one
\* send_email call with the staged to/subject/body, hands that email to the
\* backend, clears the pending confirmation and yields success = true with
\* task_type "email_sent"; approving a calendar draft makes exactly one
\* create_event call with the staged title/date/time/description and yields
\* task_type "calendar_created".
C6_ScenarioA ==
    [][(/\ last'.op = "react" /\ Approves(last'.arg)
        /\ Pending(last'.user) # None
        /\ StagedDraft(last'.user).type \in {"email", "calendar"}) =>
          LET u == last'.user
              d == StagedDraft(u)
              e == log'[Len(log')]
              r == last'.result[1]
          IN  /\ Len(log') = Len(log) + 1
              /\ e.user = u
              /\ PendingIn(pending_confirmations', u) = None
              /\ d.type = "email" =>
                   /\ e.op = "send_email"
                   /\ e.args = [to |-> d.to, subject |-> d.subject,
                                body |-> d.body]
                   /\ Len(outbox') = Len(outbox) + 1
                   /\ outbox'[Len(outbox')].to = d.to
                   /\ outbox'[Len(outbox')].subject = d.subject
                   /\ outbox'[Len(outbox')].body = d.body
                   /\ r.success = TRUE
                   /\ r.task_type = "email_sent"
              /\ d.type = "calendar" =>
                   /\ e.op = "create_event"
                   /\ e.args = [title |-> d.title, date |-> d.date,
                                time |-> d.time,
                                description |-> d.description]
                   /\ outbox' = outbox
                   /\ r.task_type = "calendar_created"]_vars

\* the scenario's email draft was staged and approved
C6_Witness ==
    /\ last.op = "react" /\ Approves(last.arg)
    /\ last.read = Some(EmailDraft(last.user, "john@example.com", "Hi", "..."))
    /\ last.result # None
    /\ last.result[1].success
    /\ Len(outbox) = 1
    /\ Pending(last.user) = None

\* C7: an unrecognized reaction changes no state. With a confirmation
\* pending, a reaction in neither list leaves the table, the backends and
\* the call history as they were and asks for clarification.
C7_UnrecognizedNoChange ==
    [][(/\ last'.op = "react"
        /\ ~Approves(last'.arg) /\ ~Rejects(last'.arg)
        /\ Pending(last'.user) # None) =>
          /\ pending_confirmations' = pending_confirmations
          /\ outbox' = outbox
          /\ events_cache' = events_cache
          /\ log' = log
          /\ response' = NotSure]_vars

\* a shrug met a pending draft, which is still there
C7_Witness ==
    /\ last.op = "react"
    /\ ~Approves(last.arg) /\ ~Rejects(last.arg)
    /\ last.read # None
    /\ response = NotSure
    /\ Pending(last.user) = last.read

\* C8: resolve with nothing pending. Whatever the reaction, a user without a
\* pending confirmation gets the "nothing pending" answer, no backend is
\* called and nothing changes.
C8_NothingPending ==
    [][(last'.op = "react" /\ Pending(last'.user) = None) =>
          /\ response' = NothingPending
          /\ UNCHANGED <<pending_confirmations, outbox, events_cache, log,
                         staged, nstaged, dead, approved, now>>]_vars

\* a reject glyph was sent by a user with nothing pending
C8_Witness ==
    /\ last.op = "react" /\ Rejects(last.arg)
    /\ last.read = None
    /\ response = NothingPending
    /\ pending_confirmations # {}

\* C9: the pending confirmation is cleared only after a successful
\* execution: after an approve whose execution reported failure the draft is
\* still pending.
C9_ClearOnlyOnSuccess ==
    (/\ last.op = "react" /\ Approves(last.arg)
     /\ last.read # None
     /\ log # <<>>
     /\ log[Len(log)].sid = last.sid
     /\ ~log[Len(log)].success
     /\ ~last.result[1].success) =>
        Pending(last.user) = last.read

\* C10: a retried approve does not deliver twice. Two backend create calls
\* made for the same staging carry the same message or event id, and the
\* backends hold no more deliveries than stagings were executed.
C10_RetryNoDuplicate ==
    /\ \A i, j \in DOMAIN log :
          log[i].sid = log[j].sid => log[i].id = log[j].id
    /\ Len(outbox) + Len(events_cache["u1"]) + Len(events_cache["u2"])
          <= Cardinality({log[i].sid : i \in DOMAIN log})

\* the descriptor process_task dispatched in the last turn, when the
\* classifier's reply decoded to a dict
IsTurn(l) == l.op = "message" /\ l.delegated
Decoded(l) == _analyze_task(l.reply)
HasDescriptor(l) ==
    /\ IsTurn(l)
    /\ Decoded(l).raised = ""
    /\ Decoded(l).value.isdict
Descriptor(l) == Decoded(l).value.d

\* C11: draft creation persists the pending confirmation. When the result
\* handed to _process_execution_result asks for confirmation and carries a
\* draft, that draft is the user's pending confirmation afterwards.
C11_DraftPersisted ==
    (/\ last.op = "result"
     /\ Get(last.result, "needs_confirmation", FALSE)
     /\ "draft" \in DOMAIN last.result) =>
        Pending(last.user) = Some(last.result.draft)

\* C12: authentication short-circuit. With the credential check false, a
\* turn dispatched to the email or the calendar handler returns the
\* authentication result (task_type "authentication", the service, a link
\* carrying a token, a message showing the link) and issues no backend call,
\* whatever the action is.
C12_AuthShortCircuit ==
    (/\ HasDescriptor(last)
     /\ Get(Descriptor(last), "task_type", "") \in {"email", "calendar"}
     /\ Descriptor(last).task_type = "email" =>
            ~_check_gmail_authentication(last.user)
     /\ Descriptor(last).task_type = "calendar" =>
            ~_check_calendar_authentication(last.user)) =>
        /\ last.result.raised = ""
        /\ last.result.value.task_type = "authentication"
        /\ last.result.value.service =
              (IF Descriptor(last).task_type = "email" THEN "gmail"
               ELSE "calendar")
        /\ \E k \in DOMAIN last.result.value.auth_url :
              last.result.value.auth_url[k] \in Tokens
        /\ \E k \in DOMAIN last.result.value.auth_url :
              last.result.value.auth_url[k] = last.user
        /\ IsInfix(last.result.value.auth_url, last.result.value.message)
        /\ Len(last.result.value.message) > Len(last.result.value.auth_url)
        /\ calls = <<>>

\* an email search was asked for and answered with the gmail link
C12_Witness ==
    /\ HasDescriptor(last)
    /\ Get(Descriptor(last), "task_type", "") = "email"
    /\ Descriptor(last).action = "search"
    /\ last.result.raised = ""
    /\ last.result.value.task_type = "authentication"
    /\ last.result.value.service = "gmail"
    /\ calls = <<>>

\* C13: the credential check comes before every backend call that needs
\* delegated access. No mail search is issued for a user whose gmail check
\* is false and no calendar search for a user whose calendar check is false.
C13_CheckBeforeBackend ==
    \A i \in DOMAIN calls :
        /\ calls[i].op = "search_emails" =>
              _check_gmail_authentication(calls[i].user)
        /\ calls[i].op = "search_events" =>
              _check_calendar_authentication(calls[i].user)

\* C16: router dispatch. A descriptor whose task_type is none of the six
\* known types gets the failure {success: false, error: "Unknown task
\* type"}; no handler runs: no backend call, no trigger, no change of the
\* events cache.
C16_UnknownTaskType ==
    [][(/\ HasDescriptor(last')
        /\ "task_type" \in DOMAIN Descriptor(last')
        /\ Descriptor(last').task_type \notin KnownTaskTypes) =>
          /\ last'.result.raised = ""
          /\ last'.result.value.success = FALSE
          /\ last'.result.value.error = <<"Unknown task type">>
          /\ calls' = <<>>
          /\ triggers' = triggers
          /\ events_cache' = events_cache]_vars

\* a descriptor of type "weather" was answered with the failure
C16_Witness ==
    /\ HasDescriptor(last)
    /\ Get(Descriptor(last), "task_type", "") = "weather"
    /\ last.result.raised = ""
    /\ last.result.value.task_type = "unknown"
    /\ calls = <<>>

\* the actions each handler knows
KnownActions(task_type) ==
    CASE task_type = "email" -> {"send", "search", "compose"}
      [] task_type = "calendar" -> {"create", "search"}
      [] task_type = "trigger" -> {"remind", "automation"}
      [] task_type = "integration" -> {"search"}
      [] OTHER -> {}

UnknownAction(l) ==
    /\ HasDescriptor(l)
    /\ Get(Descriptor(l), "task_type", "") \in
          {"email", "calendar", "trigger", "integration"}
    /\ Get(Descriptor(l), "action", "") \notin
          KnownActions(Descriptor(l).task_type)

NamesAction(l) ==
    /\ l.result.raised = ""
    /\ Get(l.result.value, "success", TRUE) = FALSE
    /\ "error" \in DOMAIN l.result.value
    /\ \E k \in DOMAIN l.result.value.error :
          l.result.value.error[k] = Descriptor(l).action

\* C17 as stated: an unknown action within email, calendar, trigger or
\* integration yields a failure result naming the action, whatever the
\* credential state.
C17_UnknownActionFails == UnknownAction(last) => NamesAction(last)

\* C17 amended: an unknown action within trigger or integration yields a
\* failure result naming the action; within email or calendar the credential
\* check comes first, and with the check false the turn returns the
\* authentication result instead, without raising.
C17_UnknownActionAfterCheck ==
    UnknownAction(last) =>
        /\ last.result.raised = ""
        /\ Descriptor(last).task_type \in {"trigger", "integration"} =>
              NamesAction(last)
        /\ (/\ Descriptor(last).task_type = "email"
            /\ ~_check_gmail_authentication(last.user)) =>
              last.result.value.task_type = "authentication"
        /\ (/\ Descriptor(last).task_type = "calendar"
            /\ ~_check_calendar_authentication(last.user)) =>
              last.result.value.task_type = "authentication"

\* an unknown integration action was answered with the failure naming it
C17_Witness ==
    /\ UnknownAction(last)
    /\ Descriptor(last).task_type = "integration"
    /\ Descriptor(last).parameters.integration = "notion"
    /\ NamesAction(last)

\* C18: classifier fallback. For a reply that is not JSON, is JSON but not
\* an object, or is an object without task_type, process_task goes on with
\* the fallback descriptor and returns.
C18_ClassifierFallback ==
    (/\ IsTurn(last)
     /\ last.reply.api = "ok"
     /\ \/ last.reply.content.json = "invalid"
        \/ ~last.reply.content.value.isdict
        \/ "task_type" \notin DOMAIN last.reply.content.value.d) =>
        /\ last.result.raised = ""
        /\ last.result.value.task_type = "unknown"

\* C19: no fault passes the controller. Every process_user_message call
\* returns a response.
C19_NoUnhandledFault ==
    last.op = "message" => last.result.raised = ""

\* C14: every token is accepted by /auth-callback (it passes the unknown
\* token and the already used checks and goes on to the code exchange) at
\* most once, whatever requests the two endpoints serve.
C14_SingleUse ==
    \A i \in DOMAIN accepts, j \in DOMAIN accepts :
        accepts[i].token = accepts[j].token => i = j

\* C15: /auth-callback accepts a token only when the user_id and the service
\* of the callback state are those the token was registered with.
C15_BoundToUserService ==
    \A i \in DOMAIN accepts :
        /\ accepts[i].user_id = accepts[i].registered.user_id
        /\ accepts[i].service = accepts[i].registered.service

\* C20: when one of the four backend searches of the generic search handler
\* raises or fails, the four are still all issued, the handler returns
\* success = true, and the merged results are the results of the remaining
\* backends, each tagged with its source, concatenated in the order mail,
\* calendar, notion, linear.
C20_FanOutIsolation ==
    [][ last'.op = "search" =>
          \E u \in {last'.user}, query \in {last'.query}, outs \in {last'.outs} :
          \E backend \in {<< search_emails(u, query),
                            search_events(events_cache, u, query),
                            search_notion(u, query),
                            search_linear(u, query) >>} :
            LET part(i) ==
                  IF outs[i] # "" THEN <<>>
                  ELSE [j \in DOMAIN backend[i] |->
                           Tagged(backend[i][j], sources[i])]
            IN  /\ last'.result.raised = ""
                /\ last'.result.value.success = TRUE
                /\ last'.result.value.results =
                       part(1) \o part(2) \o part(3) \o part(4)
                /\ Len(calls') = 4
                /\ \A i \in 1..4 : calls'[i].user = u /\ calls'[i].query = query
                /\ <<calls'[1].op, calls'[2].op, calls'[3].op, calls'[4].op>> =
                       <<"search_emails", "search_events", "search_notion",
                         "search_linear">> ]_vars

\* a search in which the linear backend raised while mail, calendar and
\* notion each contributed a result
C20_Witness ==
    /\ last.op = "search"
    /\ last.outs = [i \in 1..4 |-> IF i = 4 THEN "Exception" ELSE ""]
    /\ \A i \in 1..3 :
          \E j \in DOMAIN last.result.value.results :
              last.result.value.results[j].source = sources[i]

\* C21: every item of the merged search result carries the tag of the
\* backend that produced it (email, calendar, notion, linear); the items are
\* grouped in that order; the items of one backend are that backend's
\* results in its own order, none dropped, none merged with another.
C21_MergeOrderAndTagging ==
    [][ last'.op = "search" =>
          \E u \in {last'.user}, query \in {last'.query}, outs \in {last'.outs},
             merged \in {last'.result.value.results} :
          \E produced \in {<< search_emails(u, query),
                             search_events(events_cache, u, query),
                             search_notion(u, query),
                             search_linear(u, query) >>} :
            LET names == <<"email", "calendar", "notion", "linear">>
                group(item) == CHOOSE i \in 1..4 : names[i] = item.source
                untagged(item) ==
                    [f \in DOMAIN item \ {"source"} |-> item[f]]
                of(i) == SelectSeq(merged, LAMBDA item : item.source = names[i])
            IN  /\ \A j \in DOMAIN merged :
                       merged[j].source \in {names[i] : i \in 1..4}
                /\ \A j \in DOMAIN merged, k \in DOMAIN merged :
                       j < k => group(merged[j]) <= group(merged[k])
                /\ \A i \in 1..4 :
                       /\ Len(of(i)) = IF outs[i] # "" THEN 0
                                       ELSE Len(produced[i])
                       /\ \A j \in DOMAIN of(i) :
                              untagged(of(i)[j]) = untagged(produced[i][j]) ]_vars

\* a search in which no backend raised and every backend produced results,
\* mail, notion and linear two each
C21_Witness ==
    /\ last.op = "search"
    /\ last.outs = NoException
    /\ \E j \in DOMAIN last.result.value.results :
          last.result.value.results[j].source = "calendar"
    /\ \A name \in {"email", "notion", "linear"} :
          Len(SelectSeq(last.result.value.results,
                        LAMBDA item : item.source = name)) = 2

\* the store without the trigger of that id
Without(store, trigger_id) ==
    SelectSeq(store, LAMBDA trigger : trigger.id # trigger_id)

\* C22: delete_trigger(trigger_id, user_id) removes the trigger and reports
\* success exactly when the trigger exists and belongs to the caller; when it
\* does not exist or belongs to another user it reports success = false and
\* the store stays as it was.
C22_DeleteChecksOwnership ==
    [][ last'.op = "delete_trigger" =>
          IF \E i \in DOMAIN triggers :
                /\ triggers[i].id = last'.trigger_id
                /\ triggers[i].user_id = last'.user
          THEN /\ response'.success = TRUE
               /\ triggers' = Without(triggers, last'.trigger_id)
          ELSE /\ response'.success = FALSE
               /\ triggers' = triggers ]_vars

\* a delete_trigger call by a user who does not own the trigger: the call
\* failed and the trigger is still stored
C22_Witness ==
    /\ last.op = "delete_trigger"
    /\ response.success = FALSE
    /\ \E i \in DOMAIN triggers :
          /\ triggers[i].id = last.trigger_id
          /\ triggers[i].user_id # last.user

\* C23: check_triggers and get_user_triggers change nothing (the trigger
\* store, the clock and every other store stay as they were), and
\* check_triggers answers with the id, the action and the condition, as
\* stored, of every active trigger of the user that passes the type filter,
\* whatever the clock shows.
C23_CheckIsPureRead ==
    [][ last'.op \in {"check_triggers", "get_user_triggers"} =>
          /\ UNCHANGED <<corevars, now, turnvars, webvars>>
          /\ last'.op = "check_triggers" =>
               /\ \A i \in DOMAIN response' :
                     \E j \in DOMAIN triggers :
                        /\ triggers[j].id = response'[i].trigger_id
                        /\ triggers[j].user_id = last'.user
                        /\ triggers[j].condition = response'[i].condition
                        /\ triggers[j].action = response'[i].action
               /\ \A j \in DOMAIN triggers :
                     ( /\ triggers[j].user_id = last'.user
                       /\ triggers[j].active
                       /\ last'.trigger_type \in
                              {None, Some(triggers[j].trigger_type)} )
                     <=> \E i \in DOMAIN response' :
                            response'[i].trigger_id = triggers[j].id
          /\ last'.op = "get_user_triggers" =>
               /\ Len(response') =
                     Cardinality({j \in DOMAIN triggers :
                                     triggers[j].user_id = last'.user})
               /\ \A i \in DOMAIN response' :
                     \E j \in DOMAIN triggers :
                        /\ triggers[j].id = response'[i].id
                        /\ triggers[j].user_id = last'.user
                        /\ triggers[j].condition = response'[i].condition
                        /\ triggers[j].action = response'[i].action ]_vars

\* a check_triggers call that reported a trigger while another user's
\* trigger was in the store
C23_Witness ==
    /\ last.op = "check_triggers"
    /\ Len(response) > 0
    /\ \E j \in DOMAIN triggers : triggers[j].user_id # last.user

\* C24: after the trigger handler has processed a remind or an automation
\* action, the trigger_id of its result is the id under which a trigger of
\* that user is stored.
C24_TriggerIdReturned ==
    ( /\ HasDescriptor(last)
      /\ Get(Descriptor(last), "task_type", "") = "trigger"
      /\ Get(Descriptor(last), "action", "") \in {"remind", "automation"}
      /\ last.result.raised = "" ) =>
        \E i \in DOMAIN triggers :
            /\ triggers[i].user_id = last.user
            /\ triggers[i].id = last.result.value.trigger_id

\* a create_recurring_event call with a supported pattern and a start that
\* parses
IsSeries(l) ==
    /\ l.op = "create_recurring_event"
    /\ FrequencyDays(l.args.recurrence) > 0
    /\ l.start # None

\* C25: for a supported pattern and a parseable start, create_recurring_event
\* issues exactly 10 create_event calls, the i-th (i = 0..9) for the date
\* and time of start + i * interval, interval being 1, 7 or 30 days,
\* whether or not earlier occurrences were created.
C25_TenOccurrences ==
    IsSeries(last) =>
        /\ Len(last.issued) = Occurrences
        /\ \A i \in 0..(Occurrences - 1) :
              \E at \in {AddDays(last.start[1],
                                 i * FrequencyDays(last.args.recurrence))} :
                 /\ at # None
                 /\ last.issued[i + 1].args.date =
                        strftime_ymd(at[1], last.pads)
                 /\ last.issued[i + 1].args.time = strftime_hm(at[1])

\* C26: an occurrence that is not created does not end the series, and
\* create_recurring_event reports as events_created the number of
\* occurrences that were created.
C26_ReportsSuccessCount ==
    IsSeries(last) =>
        /\ \A i \in DOMAIN last.issued :
              ~last.issued[i].success /\ i < Occurrences
                  => Len(last.issued) > i
        /\ response.success = TRUE
        /\ "events_created" \in DOMAIN response
        /\ response.events_created =
              Cardinality({i \in DOMAIN last.issued : last.issued[i].success})

\* C27: a failed backend create call is reported as a failure: after an
\* approve whose send_email or create_event call failed, the result of
\* execute_confirmed_action has success false and carries the error, and the
\* response to the user is not the completion message.
C27_FailedCreateReported ==
    (/\ last.op = "react" /\ Approves(last.arg)
     /\ last.read # None
     /\ log # <<>>
     /\ log[Len(log)].sid = last.sid
     /\ ~log[Len(log)].success) =>
        /\ ~last.result[1].success
        /\ "error" \in DOMAIN last.result[1]
        /\ response # _format_completion_message(last.result[1])

\* C28: a persistence failure does not abort the conversation: in a turn
\* where the store's calls fail, get_user_context gives the empty default
\* context, update_user_memory returns False and writes nothing, and
\* process_user_message still returns the response formatted from the
\* turn's result.
C28_PersistenceFailureTolerated ==
    [][(last'.op = "message"
        /\ conversation_history' # conversation_history) =>
          /\ ~last'.okCtx => last'.context = DefaultContext
          /\ (last'.result.raised = "" /\ ~last'.okWrite) =>
                /\ last'.stored = Some(FALSE)
                /\ user_memory' = user_memory
          /\ last'.result.raised = "" =>
                /\ response' # None
                /\ response' = _process_execution_result(last'.result.value)]_vars

\* a turn of a user who has a stored row, answered while every call of the
\* store failed
C28_Witness ==
    /\ last.op = "message"
    /\ ~last.okCtx /\ ~last.okWrite
    /\ last.result.raised = ""
    /\ response # None
    /\ SelectWhere(user_memory, last.user) # {}
    /\ last.context = DefaultContext
    /\ faulty

\* C29: a pending confirmation never expires by itself: a step that is not
\* a set_pending_confirmation and not an approve or reject of a pending
\* draft (a process_user_message turn with its update_user_memory write, a
\* store_conversation write, an unrecognized reaction) leaves every user's
\* row and what get_pending_confirmation retrieves as they were, however far
\* the clock has moved.
C29_NoAutoExpiry ==
    [][(/\ last'.op # "set"
        /\ ~(/\ last'.op = "react" /\ last'.read # None
             /\ (Approves(last'.arg) \/ Rejects(last'.arg)))) =>
          /\ pending_confirmations' = pending_confirmations
          /\ \A u \in Users :
                (get_pending_confirmation(pending_confirmations, u, TRUE))' =
                    get_pending_confirmation(pending_confirmations, u, TRUE)]_vars

\* a draft still retrievable after a turn of its user, a stored conversation
\* and an unrecognized reaction, all later than the draft was set
C29_Witness ==
    /\ last.op = "react" /\ ~Approves(last.arg) /\ ~Rejects(last.arg)
    /\ last.read # None
    /\ Pending(last.user) = Some(StagedDraft(last.user))
    /\ \E r \in SelectWhere(pending_confirmations, last.user) :
          /\ \E i \in DOMAIN conversation_history :
                /\ conversation_history[i].user_id = last.user
                /\ conversation_history[i].timestamp > r.created_at
          /\ \E c \in conversations : c.created_at > r.created_at
          /\ \E m \in user_memory :
                m.user_id = last.user /\ m.last_updated > r.created_at

\* C30: exactly-once under concurrent requests: however two approve
\* reactions, or an approve and a set_pending_confirmation, of one user
\* interleave, no staging is the subject of two backend create calls, and no
\* create call is made for a draft that was replaced or rejected before the
\* call.
C30_ConcurrentExactlyOnce ==
    [][/\ \A i, j \in DOMAIN log' : log'[i].sid = log'[j].sid => i = j
       /\ Len(log') > Len(log) => log'[Len(log')].sid \notin dead]_vars

C32_SearchReturnsEveryMatch ==
    last.op = "search_events" =>
        response =
            Take(SelectSeq(events_cache[last.user], LAMBDA event :
                    \/ LowerIn(last.query, event.title)
                    \/ LowerIn(last.query, event.description)
                    \/ /\ event.location # None
                       /\ LowerIn(last.query, event.location[1])), 10)

\* C33: a recurrence pattern other than daily, weekly and monthly, or a
\* start date and time that do not parse, makes create_recurring_event
\* return success false with an error, after no create_event call and with
\* the event store as it was.
C33_RejectedSeriesNoEffect ==
    [][( /\ last'.op = "create_recurring_event"
         /\ Len(log') > Len(log)
         /\ \/ last'.args.recurrence \notin {"daily", "weekly", "monthly"}
            \/ last'.start = None ) =>
          /\ response'.success = FALSE
          /\ "error" \in DOMAIN response'
          /\ last'.issued = <<>>
          /\ Len(log') = Len(log) + 1
          /\ events_cache' = events_cache
          /\ now' = now]_vars

\* a series with an unsupported pattern was refused for a user who has an
\* event in the store
C33_Witness ==
    /\ last.op = "create_recurring_event"
    /\ last.args.recurrence = "yearly"
    /\ last.start # None
    /\ response.success = FALSE
    /\ last.issued = <<>>
    /\ Len(events_cache[last.user]) = 1

\* the interactions of user u that update_user_memory stored, oldest first
StoredInteractions(u) ==
    LET mine == SelectSeq(log, LAMBDA l :
                    l.op = "update_user_memory" /\ l.user = u /\ l.stored)
    IN  [i \in DOMAIN mine |-> mine[i].interaction]

\* C34: the conversation summary keeps the last 5 interactions only: the
\* stored summary of a user has entries of no more than 5 interactions, and
\* each of its entries comes from one of the user's 5 most recent
\* interactions.
C34_SummaryKeepsLastFive ==
    \A r \in user_memory :
        LET recent == LastN(StoredInteractions(r.user_id), 5)
        IN  /\ Len(r.conversation_summary) <= 2 * 5
            /\ r.conversation_summary =
                 Flatten([i \in DOMAIN recent |->
                     <<SummaryEntry("User", recent[i].user_message),
                       SummaryEntry("Agent", recent[i].agent_response)>>])

\* C35: pending confirmations are isolated per user: a
\* set_pending_confirmation or a reaction of user A (with the
\* clear_pending_confirmation it makes) leaves the row of every other user as
\* it was, and a backend create call made for A's approve is made for A, with
\* the draft A staged.
C35_PendingIsolatedPerUser ==
    [][last'.op \in {"set", "react"} =>
          /\ \A b \in Users \ {last'.user} :
                {r \in pending_confirmations' : r.user_id = b} =
                    {r \in pending_confirmations : r.user_id = b}
          /\ Len(log') > Len(log) =>
                LET e == log'[Len(log')]
                IN  /\ e.user = last'.user
                    /\ staged[e.user] # None
                    /\ e.sid = staged[e.user][1].sid
                    /\ \A k \in DOMAIN e.args :
                          e.args[k] = staged[e.user][1].draft[k]
                    /\ \A b \in Users \ {e.user} :
                          staged[b] # None => staged[b][1].sid # e.sid]_vars

\* a user's draft was approved or rejected while another user's draft was
\* pending, and that other draft is still pending
C35_Witness ==
    /\ last.op = "react" /\ last.read # None
    /\ Approves(last.arg) \/ Rejects(last.arg)
    /\ {r \in pending_confirmations : r.user_id = last.user} = {}
    /\ \E b \in Users \ {last.user} :
          /\ staged[b] # None
          /\ \E r \in pending_confirmations :
                r.user_id = b /\ r.sid = staged[b][1].sid

\* C36: conversation context is isolated per user: the context messages
\* built for a user's conversational reply are the system prompt followed by
\* the last 5 messages that this user sent, as they would be had no other
\* user sent anything.
C36_ContextIsolatedPerUser ==
    (last.op = "message" /\ ~last.delegated) =>
        last.context_messages =
            Some(context_messages(
                     SelectSeq(conversation_history,
                               LAMBDA msg : msg.user_id = last.user),
                     last.context))


\* C37: the authentication-required outcome reaches the user. When the
\* execution agent answers a turn with an authentication result (a link and a
\* message that shows it), the response of process_user_message contains the
\* link.
C37_AuthLinkReachesUser ==
    (/\ last.op = "message"
     /\ last.delegated
     /\ last.result.raised = ""
     /\ Get(last.result.value, "task_type", "") = "authentication"
     /\ "auth_url" \in DOMAIN last.result.value) =>
        IsInfix(last.result.value.auth_url, response)


\* C38: trigger creation never loses a trigger. Each successful create adds
\* exactly one entry to the store, under an id distinct from every id that
\* was there, and leaves every trigger that was there in place. (The store
\* is keyed by the id field of its triggers, so each key equals the id of
\* the trigger under it.)
C38_CreateNeverLosesTrigger ==
    [][(log' # log /\ response'.success) =>
          /\ Len(triggers') = Len(triggers) + 1
          /\ \A i \in DOMAIN triggers :
                /\ triggers[i].id # response'.trigger_id
                /\ triggers'[i] = triggers[i]
          /\ triggers'[Len(triggers')].id = response'.trigger_id]_vars


\* C39: the fan-out search is read-only on the backends. A step of
\* _handle_search_task leaves the events cache as it was.
C39_SearchReadOnly ==
    [][last'.op = "search" => events_cache' = events_cache]_vars


\* C40: OAuth state round-trip. When /auth-callback parses the state that
\* /auth-web built from a token, a user_id and a service, the three parts it
\* gets are that token, that user_id and that service.
C40_StateRoundTrip ==
    [][(last'.op = "auth_callback" /\ last'.parts # None) =>
          \A t \in DOMAIN auth_tokens :
             last'.state = OAuthState(t, auth_tokens[t].user_id,
                                      auth_tokens[t].service) =>
                last'.parts[1] = <<t, auth_tokens[t].user_id,
                                   auth_tokens[t].service>>]_vars

====
